---- MODULE Spec2Model ----
(***************************************************************************)
(* FinX SDK clients (FiteAnalytics/sdk): the request fingerprint           *)
(* (_get_cache_key), the LRU response cache, the sync / async HTTP         *)
(* dispatch and the websocket dispatch with its receive path.              *)
(*                                                                         *)
(* Python strings are sequences of one-character strings, so that          *)
(* concatenation, sorting and substring tests are computed as Python       *)
(* computes them.  A Python dict is a sequence of <<name, value>> pairs    *)
(* with distinct names, in insertion order.                                *)
(***************************************************************************)
EXTENDS Integers, Sequences, FiniteSets, Bags, TLC

\* ------------------------------------------------------------------------
\* String literals of the source
\* ------------------------------------------------------------------------
S_security_id == <<"s", "e", "c", "u", "r", "i", "t", "y", "_", "i", "d">>
S_api_method == <<"a", "p", "i", "_", "m", "e", "t", "h", "o", "d">>
S_finx_api_key == <<"f", "i", "n", "x", "_", "a", "p", "i", "_", "k", "e", "y">>
S_input_file == <<"i", "n", "p", "u", "t", "_", "f", "i", "l", "e">>
S_output_file == <<"o", "u", "t", "p", "u", "t", "_", "f", "i", "l", "e">>
S_use_kalotay_analytics == <<"u", "s", "e", "_", "k", "a", "l", "o", "t", "a", "y", "_", "a", "n", "a", "l", "y", "t", "i", "c", "s">>
S_as_of_date == <<"a", "s", "_", "o", "f", "_", "d", "a", "t", "e">>
S_price == <<"p", "r", "i", "c", "e">>
S_None == <<"N", "o", "n", "e">>
S_False == <<"F", "a", "l", "s", "e">>
S_True == <<"T", "r", "u", "e">>
S_coverage_check == <<"c", "o", "v", "e", "r", "a", "g", "e", "_", "c", "h", "e", "c", "k">>
S_security_analytics == <<"s", "e", "c", "u", "r", "i", "t", "y", "_", "a", "n", "a", "l", "y", "t", "i", "c", "s">>

\* The characters the model uses, in code point order (Python compares
\* strings by code point).
Ascii ==
    <<",", "-", ".", "0", "1", "2", "3", "4", "5", "6", "7", "8", "9", ":",
      "A", "B", "C", "D", "E", "F", "G", "H", "I", "J", "K", "L", "M", "N",
      "O", "P", "Q", "R", "S", "T", "U", "V", "W", "X", "Y", "Z", "_",
      "a", "b", "c", "d", "e", "f", "g", "h", "i", "j", "k", "l", "m", "n",
      "o", "p", "q", "r", "s", "t", "u", "v", "w", "x", "y", "z">>

Ord(c) == CHOOSE n \in 1..Len(Ascii) : Ascii[n] = c

\* s < t in Python's string order (lexicographic by code point).
RECURSIVE StrLess(_, _)
StrLess(s, t) ==
    IF t = <<>> THEN FALSE
    ELSE IF s = <<>> THEN TRUE
    ELSE IF Head(s) = Head(t) THEN StrLess(Tail(s), Tail(t))
    ELSE Ord(Head(s)) < Ord(Head(t))

\* Python's `sub in s` on strings.
IsSubstring(sub, s) ==
    \E a \in 0..(Len(s) - Len(sub)) : SubSeq(s, a + 1, a + Len(sub)) = sub

\* ------------------------------------------------------------------------
\* Python values: None, str, bool
\* ------------------------------------------------------------------------
PyNone == [t |-> "none", s |-> <<>>, b |-> FALSE]
PyStr(s) == [t |-> "str", s |-> s, b |-> FALSE]
PyBool(b) == [t |-> "bool", s |-> <<>>, b |-> b]

\* str(value), as an f-string formats it.
Format(v) ==
    CASE v.t = "none" -> S_None
      [] v.t = "bool" -> (IF v.b THEN S_True ELSE S_False)
      [] OTHER -> v.s

\* ------------------------------------------------------------------------
\* Python dicts: insertion-ordered <<name, value>> pairs
\* ------------------------------------------------------------------------
DictKeys(d) == {d[n][1] : n \in 1..Len(d)}

DictHas(d, name) == \E n \in 1..Len(d) : d[n][1] = name

\* d[name] for a name that is present.
DictAt(d, name) == d[CHOOSE n \in 1..Len(d) : d[n][1] = name][2]

\* d.get(name)
DictGet(d, name) == IF DictHas(d, name) THEN DictAt(d, name) ELSE PyNone

\* d[name] = value: in place when the name is present, appended otherwise.
DictSet(d, name, value) ==
    IF DictHas(d, name)
    THEN [n \in 1..Len(d) |-> IF d[n][1] = name THEN <<name, value>> ELSE d[n]]
    ELSE Append(d, <<name, value>>)

\* d.update(e)
RECURSIVE DictUpdate(_, _)
DictUpdate(d, e) ==
    IF e = <<>> THEN d
    ELSE DictUpdate(DictSet(d, Head(e)[1], Head(e)[2]), Tail(e))

\* sorted(names): insertion sort by StrLess over an iteration of the names.
RECURSIVE InsertSorted(_, _)
InsertSorted(name, sorted) ==
    IF sorted = <<>> THEN <<name>>
    ELSE IF StrLess(name, Head(sorted)) THEN <<name>> \o sorted
    ELSE <<Head(sorted)>> \o InsertSorted(name, Tail(sorted))

RECURSIVE SortNames(_)
SortNames(names) ==
    IF names = <<>> THEN <<>>
    ELSE InsertSorted(Head(names), SortNames(Tail(names)))

\* The names of d in insertion order: what iterating d.keys() yields.
KeyList(d) == [n \in 1..Len(d) |-> d[n][1]]

SortedKeys(d) == SortNames(KeyList(d))

\* ','.join(parts)
RECURSIVE Join(_)
Join(parts) ==
    IF parts = <<>> THEN <<>>
    ELSE IF Len(parts) = 1 THEN Head(parts)
    ELSE Head(parts) \o <<",">> \o Join(Tail(parts))

\* [f'{key}:{params[key]}' for key in names]
Pairs(d, names) ==
    [n \in 1..Len(names) |-> names[n] \o <<":">> \o Format(DictAt(d, names[n]))]

\* ------------------------------------------------------------------------
\* KeyGenerator
\* ------------------------------------------------------------------------
\* The iteration order of the names that the joined part of the key uses.
KeyOrderUnsorted(d) == KeyList(d)

KeyOrder(d) == SortedKeys(d)

\* client.py _get_cache_key: security_id, then api_method, then the other
\* parameters as name:value joined by commas in sorted name order.
GetCacheKey(params) ==
    LET security_id == DictGet(params, S_security_id)
        api_method == DictGet(params, S_api_method)
        key1 == IF security_id # PyNone THEN security_id.s ELSE <<>>
        key2 == IF api_method # PyNone THEN key1 \o api_method.s ELSE key1
        rest == SelectSeq(KeyOrder(params),
                          LAMBDA k : k # S_security_id /\ k # S_api_method)
    IN  key2 \o Join(Pairs(params, rest))

\* finx_api.py _get_cache_key: every parameter as name:value, sorted by name.
GetCacheKeyApi(params) == Join(Pairs(params, KeyOrder(params)))

\* ------------------------------------------------------------------------
\* Bounds of the model
\* ------------------------------------------------------------------------
\* Caller threads (or tasks) using one client concurrently.
NumCallers == 2

\* Largest configured cache capacity (cache_size / max_cache_size).
MaxCacheSize == 2

\* Request frames or HTTP posts one run sends at most.
MaxSends == 3

\* Distinct payload contents the server may answer with.
NumValues == 2

Callers == 1..NumCallers

Values == 1..NumValues

\* ------------------------------------------------------------------------
\* Response payloads
\* ------------------------------------------------------------------------
\* A payload: its Python type, its content v, whether it (a dict) has an
\* 'error', a 'progress' or a 'filename' entry, and its 'security_id' entry
\* (empty when it has none).
Payload(type, v, error, progress, filename, security_id) ==
    [type |-> type, v |-> v, error |-> error, progress |-> progress,
     filename |-> filename, security_id |-> security_id]

\* The Python None a lookup yields for an absent key.
NoValue == Payload("none", 0, FALSE, FALSE, FALSE, <<>>)

\* A dict payload: response.json() of an HTTP answer, or the 'data' of a frame.
DataDict(v) == Payload("dict", v, FALSE, FALSE, FALSE, <<>>)

JsonError(v) == Payload("dict", v, TRUE, FALSE, FALSE, <<>>)

ProgressDict(v) == Payload("dict", v, FALSE, TRUE, FALSE, <<>>)

\* The data of a frame that names a result file to download.
FileDict(v) == Payload("dict", v, FALSE, FALSE, TRUE, <<>>)

\* A row of result file v: file_df.to_dict(orient='records')
RowDict(security_id, v) == Payload("dict", v, FALSE, FALSE, FALSE, security_id)

\* The 'error' of a socket frame is a message string.
ErrorStr(v) == Payload("str", v, FALSE, FALSE, FALSE, <<>>)

\* The aiohttp response object the async dispatch returns on an error.
ResponseObject(v) == Payload("response", v, TRUE, FALSE, FALSE, <<>>)

\* ------------------------------------------------------------------------
\* ResponseCache: lru.LRU, a sequence of <<key, value>>, most recent first
\* ------------------------------------------------------------------------
CacheKeys(cch) == {cch[n][1] : n \in 1..Len(cch)}

CacheIndex(cch, k) == CHOOSE n \in 1..Len(cch) : cch[n][1] = k

\* The value stored under k, without any effect on the order.
Peek(cch, k) == IF k \in CacheKeys(cch) THEN cch[CacheIndex(cch, k)][2] ELSE NoValue

Without(cch, k) == SelectSeq(cch, LAMBDA e : e[1] # k)

\* The order after cache.get(k): a hit moves the entry to the head.
LRUTouchNoMove(cch, k) == cch

LRUTouch(cch, k) ==
    IF k \in CacheKeys(cch) THEN <<cch[CacheIndex(cch, k)]>> \o Without(cch, k) ELSE cch

LRUGetMiss(cch, k) == <<NoValue, cch>>

\* cache.get(k): <<value or None, order after the lookup>>
LRUGet(cch, k) == <<Peek(cch, k), LRUTouch(cch, k)>>

\* cache[k] = v: an entry that exists is replaced and moved to the head; a new
\* one is put at the head and, over capacity, the tail entry is deleted.
LRUPutNoEvict(cch, size, k, v) == <<<<k, v>>>> \o Without(cch, k)

LRUPut(cch, size, k, v) ==
    IF k \in CacheKeys(cch) THEN <<<<k, v>>>> \o Without(cch, k)
    ELSE IF Len(cch) >= size THEN <<<<k, v>>>> \o SubSeq(cch, 1, size - 1)
    ELSE <<<<k, v>>>> \o cch

LRUClearNothing(cch) == cch

\* cache.clear()
LRUClear(cch) == <<>>

\* ------------------------------------------------------------------------
\* Requests the callers make
\* ------------------------------------------------------------------------
S_block == <<"b", "l", "o", "c", "k">>

SecA == <<"A">>

SecB == <<"B">>

\* The API credential of the client.
ApiKey == <<"K">>

\* A call: api_method, and the keyword arguments in the order they are passed.
Call(method, kwargs) == [method |-> method, kwargs |-> kwargs]

\* coverage_check(security_id), optionally with an explicit block keyword.
Calls ==
    { Call(S_coverage_check, <<<<S_security_id, PyStr(SecA)>>>>),
      Call(S_coverage_check, <<<<S_security_id, PyStr(SecB)>>>>),
      Call(S_coverage_check, <<<<S_security_id, PyStr(SecA)>>, <<S_block, PyBool(FALSE)>>>>) }

\* any(kwargs): some keyword name is a non-empty string.
AnyName(kwargs) == \E n \in 1..Len(kwargs) : kwargs[n][1] # <<>>

\* {key: value for key, value in kwargs.items()
\*  if key != 'finx_api_key' and key != 'api_method'}
FilterKwargs(kwargs) ==
    SelectSeq(kwargs, LAMBDA e : e[1] # S_finx_api_key /\ e[1] # S_api_method)

\* ... and value is not None
FilterKwargsNotNone(kwargs) ==
    SelectSeq(kwargs, LAMBDA e : e[1] # S_finx_api_key /\ e[1] # S_api_method
                                 /\ e[2] # PyNone)

WithKalotay(body, method) ==
    IF method = S_security_analytics
    THEN DictSet(body, S_use_kalotay_analytics, PyBool(FALSE))
    ELSE body

\* The credential entry the HTTP request body starts with.
BodyCredential(api_key) == <<<<S_finx_api_key, PyStr(api_key)>>>>

\* _SyncFinXClient._dispatch: the request body the cache key is computed from.
SyncRequestBody(api_key, call) ==
    LET base == BodyCredential(api_key) \o
                <<<<S_api_method, PyStr(call.method)>>,
                  <<S_input_file, PyNone>>, <<S_output_file, PyNone>>>>
        upd == IF AnyName(call.kwargs)
               THEN DictUpdate(base, FilterKwargs(call.kwargs)) ELSE base
    IN  WithKalotay(upd, call.method)

\* _AsyncFinXClient._dispatch: as the sync one, without the None keywords.
AsyncRequestBody(api_key, call) ==
    LET base == BodyCredential(api_key) \o
                <<<<S_api_method, PyStr(call.method)>>,
                  <<S_input_file, PyNone>>, <<S_output_file, PyNone>>>>
        upd == IF AnyName(call.kwargs)
               THEN DictUpdate(base, FilterKwargsNotNone(call.kwargs)) ELSE base
    IN  WithKalotay(upd, call.method)

\* _SocketFinXClient._dispatch, single call: the payload the key is computed
\* from (the credential is not part of a socket payload).
SocketPayload(call) ==
    LET base == <<<<S_api_method, PyStr(call.method)>>>>
        upd == IF AnyName(call.kwargs)
               THEN DictUpdate(base, FilterKwargs(call.kwargs)) ELSE base
        kal == WithKalotay(upd, call.method)
    IN  DictSet(DictSet(kal, S_input_file, PyNone), S_output_file, PyNone)

S_security_reference ==
    <<"s", "e", "c", "u", "r", "i", "t", "y", "_", "r", "e", "f", "e", "r", "e", "n", "c", "e">>

\* finx_api.py, get_security_reference_data(security_id): the request body
\* handed to __dispatch, which is called without keywords.
ApiRequestBody(api_key, call) ==
    BodyCredential(api_key) \o
    <<<<S_api_method, PyStr(S_security_reference)>>,
      <<S_security_id, DictGet(call.kwargs, S_security_id)>>>>

\* The cache key a dispatch of the given client kind looks up and stores under.
DispatchKey(knd, api_key, call) ==
    CASE knd = "sync" -> GetCacheKey(SyncRequestBody(api_key, call))
      [] knd = "async" -> GetCacheKey(AsyncRequestBody(api_key, call))
      [] knd = "api_sync" -> GetCacheKeyApi(ApiRequestBody(api_key, call))
      [] OTHER -> GetCacheKey(SocketPayload(call))

Kinds == {"sync", "async", "socket"}

\* DispatchKey of the client's own credential, computed once per kind and call.
KeyTable == [knd \in Kinds |-> [call \in Calls |-> DispatchKey(knd, ApiKey, call)]]

KeyOf(knd, call) == KeyTable[knd][call]

\* Every cache key a client of the kind can meet.
KindKeys(knd) == {KeyOf(knd, call) : call \in Calls}

\* ------------------------------------------------------------------------
\* State
\* ------------------------------------------------------------------------
VARIABLES
    kind,              \* the client class: "sync", "async" or "socket"
    cache_size,        \* self.cache_size
    default_block,     \* self.block of the socket client
    cache,             \* self.cache
    connected,         \* self._socket.is_connected()
    is_authenticated,  \* self.is_authenticated
    cred_sent,         \* the credential frame went out on the current connection
    socket_thread,     \* self._socket_thread is running (connecting or connected)
    wire,              \* request frames sent and not yet answered by the server
    pc,                \* where each caller is in its call
    cur,               \* the locals of each caller's call in progress
    ret,               \* what each caller's last call returned or raised
    i,                 \* the poll budget left in each caller's authentication wait
    sent,              \* history: request frames / posts sent per cache key
    resolved,          \* history: per key, the value the first resolved call
                       \* returned, while the key has stayed in the cache
    uses,              \* history: the keys in order of their last use
    auth_failed,       \* history: some call raised 'Client not authenticated'
    ev,                \* history: the operation the last step performed
    P1,                \* key generator: a request parameter mapping
    P2,                \* key generator: the same pairs in another order
    fp,                \* key generator: the cache keys computed
    batch,             \* batch entry points: the call made and its outcome
    ctor,              \* constructors: the arguments, the environment, the outcome
    net                \* connections: the handshake of the current connection
                       \* and the connections _init_socket has replaced

client ==
    <<kind, cache_size, default_block, cache, connected, is_authenticated,
      cred_sent, socket_thread, wire, pc, cur, ret, i, sent, resolved, uses, auth_failed, ev>>

\* The variables of the constructors and of the connections.
others == <<ctor, net>>

aside == <<P1, P2, fp, batch, others>>

vars == <<client, aside>>

\* i = 5000
AuthPollBudget == 5000

NoCall == Call(<<>>, <<>>)

\* The locals of a call: the call, whether it has a callable callback, the
\* outstanding rows of a batch, the cache keys, and the loop variables of
\* _listen_for_result; outage is history: the connection was lost while the
\* call was waiting for its result.
NoCur == [call |-> NoCall, callback |-> FALSE, batch_input |-> <<>>,
          keys |-> <<>>, remaining |-> <<>>, results |-> <<>>, outage |-> FALSE]

NoRet == [kind |-> "none", vals |-> <<>>, keys |-> <<>>]

RetValue(v, keys) == [kind |-> "value", vals |-> <<v>>, keys |-> keys]

NoEv == [op |-> "init", c |-> 0, keys |-> <<>>, data |-> NoValue]

Ev(op, c, keys) == [op |-> op, c |-> c, keys |-> keys, data |-> NoValue]

RECURSIVE SumOver(_, _)
SumOver(f, S) ==
    IF S = {} THEN 0
    ELSE LET k == CHOOSE x \in S : TRUE IN f[k] + SumOver(f, S \ {k})

SentTotal == SumOver(sent, DOMAIN sent)

\* history: k was used (a put, or a get that hit)
Used(u, k) == <<k>> \o SelectSeq(u, LAMBDA x : x # k)

RECURSIVE UsedAll(_, _)
UsedAll(u, ks) == IF ks = <<>> THEN u ELSE UsedAll(Used(u, Head(ks)), Tail(ks))

\* history: the resolved values after a step that leaves the cache as cch and
\* in which a call returned v for each key of ks.  The value of the first
\* call that resolved with its entry in the cache is kept until the key
\* leaves the cache.
ResolvedAfter(cch, ks, v) ==
    [k \in KindKeys(kind) |->
        IF k \notin CacheKeys(cch) THEN NoValue
        ELSE IF resolved[k] # NoValue THEN resolved[k]
        ELSE IF (\E n \in 1..Len(ks) : ks[n] = k) /\ Peek(cch, k) = v THEN v
        ELSE NoValue]

\* State after construction of a client of some kind; the socket client has
\* completed its handshake when authenticated is TRUE.
ClientInit(knd, size, blk, authenticated, callers) ==
    /\ kind = knd
    /\ cache_size = size
    /\ default_block = blk
    /\ cache = <<>>
    /\ connected = authenticated
    /\ is_authenticated = authenticated
    /\ cred_sent = authenticated
    /\ socket_thread = (knd = "socket")
    /\ wire = EmptyBag
    /\ pc = [c \in Callers |-> IF c \in callers THEN "idle" ELSE "off"]
    /\ cur = [c \in Callers |-> NoCur]
    /\ ret = [c \in Callers |-> NoRet]
    /\ i = [c \in Callers |-> 0]
    /\ sent = [k \in KindKeys(knd) |-> 0]
    /\ resolved = [k \in KindKeys(knd) |-> NoValue]
    /\ uses = <<>>
    /\ auth_failed = FALSE
    /\ ev = NoEv

NoFp == [op |-> "none", a |-> <<>>, b |-> <<>>]

NoBatch == [variant |-> "none", n |-> 0, done |-> FALSE, raised |-> FALSE,
            requests |-> 0, rows |-> 0]

NoCtor == [variant |-> "none", finx_api_key |-> PyNone, FINX_API_KEY |-> PyNone,
           done |-> FALSE, raised |-> FALSE, api_key |-> PyNone, socket |-> FALSE]

\* The connection just made by _run_socket: on_open has not run on it, it
\* has received no acknowledgment, and no connection has been replaced.
NoNet == [on_open |-> FALSE, acked |-> FALSE, replaced |-> <<>>]

NoOthers == ctor = NoCtor /\ net = NoNet

\* No key generator input, no batch call and no constructor under study.
NoAside == P1 = <<>> /\ P2 = <<>> /\ fp = NoFp /\ batch = NoBatch /\ NoOthers

InitWith(knd, size, blk, authenticated, callers) ==
    ClientInit(knd, size, blk, authenticated, callers) /\ NoAside

\* ------------------------------------------------------------------------
\* Sync / async HTTP dispatch (_SyncFinXClient, _AsyncFinXClient)
\* ------------------------------------------------------------------------
\* _dispatch up to the post: build the body, look the key up, return a hit,
\* or post the request and wait for the answer.
HttpDispatch(c, call) ==
    /\ kind \in {"sync", "async"}
    /\ pc[c] = "idle"
    /\ LET key == KeyOf(kind, call)
           got == LRUGet(cache, key)
       IN  IF got[1] # NoValue
           THEN /\ cache' = got[2]
                /\ ret' = [ret EXCEPT ![c] = RetValue(got[1], <<key>>)]
                /\ uses' = Used(uses, key)
                /\ resolved' = ResolvedAfter(got[2], <<key>>, got[1])
                /\ UNCHANGED <<pc, cur, sent>>
           ELSE /\ SentTotal < MaxSends
                /\ cache' = got[2]
                /\ pc' = [pc EXCEPT ![c] = "posted"]
                /\ cur' = [cur EXCEPT ![c] = [NoCur EXCEPT !.call = call, !.keys = <<key>>]]
                /\ ret' = [ret EXCEPT ![c] = NoRet]
                /\ sent' = [sent EXCEPT ![key] = @ + 1]
                /\ UNCHANGED <<uses, resolved>>
    /\ ev' = Ev("call", c, <<KeyOf(kind, call)>>)
    /\ UNCHANGED <<kind, cache_size, default_block, connected, is_authenticated,
                   cred_sent, socket_thread, wire, i, auth_failed>>
    /\ UNCHANGED aside

\* The rest of _dispatch: the answer of the post has arrived as data.  An
\* answer with an 'error' entry is returned and not cached (the async client
\* returns the response object); any other answer is cached and returned.
HttpResponse(c, data) ==
    /\ kind \in {"sync", "async"}
    /\ pc[c] = "posted"
    /\ LET key == cur[c].keys[1]
       IN  IF data.error
           THEN /\ ret' = [ret EXCEPT ![c] =
                            [kind |-> "error",
                             vals |-> <<IF kind = "async" THEN ResponseObject(data.v) ELSE data>>,
                             keys |-> <<key>>]]
                /\ UNCHANGED <<cache, uses, resolved>>
           ELSE /\ cache' = LRUPut(cache, cache_size, key, data)
                /\ ret' = [ret EXCEPT ![c] = RetValue(data, <<key>>)]
                /\ uses' = Used(uses, key)
                /\ resolved' = ResolvedAfter(cache', <<key>>, data)
    /\ pc' = [pc EXCEPT ![c] = "idle"]
    /\ cur' = [cur EXCEPT ![c] = NoCur]
    /\ ev' = [op |-> IF data.error THEN "http_error" ELSE "response",
              c |-> c, keys |-> cur[c].keys, data |-> data]
    /\ UNCHANGED <<kind, cache_size, default_block, connected, is_authenticated,
                   cred_sent, socket_thread, wire, i, sent, auth_failed>>
    /\ UNCHANGED aside

\* clear_cache()
ClearCache ==
    /\ cache' = LRUClear(cache)
    /\ resolved' = [k \in KindKeys(kind) |-> NoValue]
    /\ ev' = Ev("clear", 0, <<>>)
    /\ UNCHANGED <<kind, cache_size, default_block, connected, is_authenticated,
                   cred_sent, socket_thread, wire, pc, cur, ret, i, sent, uses, auth_failed>>
    /\ UNCHANGED aside

\* ------------------------------------------------------------------------
\* Websocket client (_SocketFinXClient)
\* ------------------------------------------------------------------------
\* The request frame of an aggregated batch: the cache keys of all rows and
\* the security ids of the outstanding rows.
BatchFrame(keys, batch_input) == [cache_keys |-> keys, batch_input |-> batch_input]

\* The request frame of a single call.
Frame(keys) == BatchFrame(keys, <<>>)

\* kwargs.get('block', self.block), as `if block:` reads it
BlockOf(call) ==
    IF DictHas(call.kwargs, S_block)
    THEN LET b == DictAt(call.kwargs, S_block)
         IN  (b.t = "bool" /\ b.b) \/ (b.t = "str" /\ b.s # <<>>)
    ELSE default_block

\* _dispatch from `payload = {...}` on, for a single call: look the key up,
\* return a hit; on a miss send the frame, then listen (block) or return the
\* cache keys as a handle.
DispatchBody(c, call) ==
    LET keys == <<KeyOf("socket", call)>>
        got == LRUGet(cache, keys[1])
    IN  IF got[1] # NoValue
        THEN /\ cache' = got[2]
             /\ ret' = [ret EXCEPT ![c] = RetValue(got[1], keys)]
             /\ pc' = [pc EXCEPT ![c] = "idle"]
             /\ cur' = [cur EXCEPT ![c] = NoCur]
             /\ uses' = Used(uses, keys[1])
             /\ resolved' = ResolvedAfter(got[2], keys, got[1])
             /\ UNCHANGED <<wire, sent>>
        ELSE IF ~connected
        THEN \* self._socket.send on a socket that is not connected raises
             \* WebSocketConnectionClosedException out of the call
             /\ cache' = got[2]
             /\ ret' = [ret EXCEPT ![c] =
                         [kind |-> "closed", vals |-> <<>>, keys |-> <<>>]]
             /\ pc' = [pc EXCEPT ![c] = "idle"]
             /\ cur' = [cur EXCEPT ![c] = NoCur]
             /\ UNCHANGED <<wire, sent, uses, resolved>>
        ELSE /\ SentTotal < MaxSends
             /\ cache' = got[2]
             /\ wire' = wire (+) SetToBag({Frame(keys)})
             /\ sent' = [sent EXCEPT ![keys[1]] = @ + 1]
             /\ IF BlockOf(call)
                THEN /\ pc' = [pc EXCEPT ![c] = "sleep"]
                     /\ cur' = [cur EXCEPT ![c] =
                                 [NoCur EXCEPT !.call = call, !.keys = keys,
                                               !.remaining = keys]]
                     /\ ret' = [ret EXCEPT ![c] = NoRet]
                ELSE /\ pc' = [pc EXCEPT ![c] = "idle"]
                     /\ cur' = [cur EXCEPT ![c] = NoCur]
                     /\ ret' = [ret EXCEPT ![c] =
                                 [kind |-> "handle", vals |-> <<>>, keys |-> keys]]
             /\ UNCHANGED <<uses, resolved>>

\* _init_socket(): a new connection is being opened; nothing is authenticated.
InitSocket ==
    /\ is_authenticated' = FALSE
    /\ connected' = FALSE
    /\ cred_sent' = FALSE
    /\ socket_thread' = TRUE

\* _dispatch, from its entry: reconnect when the socket is not connected, then
\* either start the authentication wait or go on with the call.
SocketDispatch(c, call) ==
    /\ kind = "socket"
    /\ pc[c] = "idle"
    /\ ev' = Ev("call", c, <<KeyOf("socket", call)>>)
    /\ IF ~connected
       THEN /\ InitSocket
            /\ pc' = [pc EXCEPT ![c] = "auth_wait"]
            /\ cur' = [cur EXCEPT ![c] = [NoCur EXCEPT !.call = call]]
            /\ i' = [i EXCEPT ![c] = AuthPollBudget]
            /\ ret' = [ret EXCEPT ![c] = NoRet]
            /\ UNCHANGED <<cache, wire, sent, uses, resolved>>
       ELSE IF ~is_authenticated
       THEN /\ pc' = [pc EXCEPT ![c] = "auth_wait"]
            /\ cur' = [cur EXCEPT ![c] = [NoCur EXCEPT !.call = call]]
            /\ i' = [i EXCEPT ![c] = AuthPollBudget]
            /\ ret' = [ret EXCEPT ![c] = NoRet]
            /\ UNCHANGED <<cache, wire, sent, uses, resolved,
                           connected, is_authenticated, cred_sent, socket_thread>>
       ELSE /\ DispatchBody(c, call)
            /\ UNCHANGED <<i, connected, is_authenticated, cred_sent, socket_thread>>
    /\ UNCHANGED <<kind, cache_size, default_block, auth_failed>>
    /\ UNCHANGED aside

AuthWaitOverAtOnce(c) == TRUE

\* The condition of `while not self.is_authenticated and i >= 1` is false.
AuthWaitOver(c) == is_authenticated \/ i[c] < 1

\* One turn of `while not self.is_authenticated and i >= 1: sleep(.001); i -= 1`
AuthSleep(c) ==
    /\ pc[c] = "auth_wait"
    /\ ~AuthWaitOver(c)
    /\ i' = [i EXCEPT ![c] = @ - 1]
    /\ UNCHANGED <<kind, cache_size, default_block, cache, connected,
                   is_authenticated, cred_sent, socket_thread, wire, pc, cur, ret, sent,
                   resolved, uses, auth_failed, ev>>
    /\ UNCHANGED aside

\* The wait loop ends: raise when still not authenticated, else go on.
AuthExit(c) ==
    /\ pc[c] = "auth_wait"
    /\ AuthWaitOver(c)
    /\ i' = [i EXCEPT ![c] = 0]
    /\ IF ~is_authenticated
       THEN /\ ret' = [ret EXCEPT ![c] =
                        [kind |-> "raise", vals |-> <<>>, keys |-> <<>>]]
            /\ pc' = [pc EXCEPT ![c] = "idle"]
            /\ cur' = [cur EXCEPT ![c] = NoCur]
            /\ auth_failed' = TRUE
            /\ ev' = Ev("auth_raise", c, <<>>)
            /\ UNCHANGED <<cache, wire, sent, uses, resolved>>
       ELSE /\ DispatchBody(c, cur[c].call)
            /\ ev' = Ev("auth_done", c, <<KeyOf("socket", cur[c].call)>>)
            /\ UNCHANGED auth_failed
    /\ UNCHANGED <<kind, cache_size, default_block, connected,
                   is_authenticated, cred_sent, socket_thread>>
    /\ UNCHANGED aside

\* _listen_for_result: sleep(.01) at the head of the loop.
ListenSleep(c) ==
    /\ pc[c] = "sleep"
    /\ pc' = [pc EXCEPT ![c] = "poll"]
    /\ ev' = Ev("sleep", c, <<>>)
    /\ UNCHANGED <<kind, cache_size, default_block, cache, connected,
                   is_authenticated, cred_sent, socket_thread, wire, cur, ret, i, sent,
                   resolved, uses, auth_failed>>
    /\ UNCHANGED aside

\* {key: self.cache.get(key) for key in remaining_keys}: the lookups in turn.
\* Yields the cache order after them, the (key, value) found and the keys
\* still missing.
RECURSIVE PollKeys(_, _, _, _)
PollKeys(cch, keys, found, missing) ==
    IF keys = <<>> THEN [cache |-> cch, found |-> found, missing |-> missing]
    ELSE LET got == LRUGet(cch, Head(keys))
         IN  IF got[1] # NoValue
             THEN PollKeys(got[2], Tail(keys),
                           DictSet(found, Head(keys), got[1]), missing)
             ELSE PollKeys(got[2], Tail(keys), found,
                           IF \E n \in 1..Len(missing) : missing[n] = Head(keys)
                           THEN missing ELSE Append(missing, Head(keys)))

\* list(results.values()), returned whole when longer than one element.
ListenReturn(results, keys) ==
    IF Len(results) = 1 THEN RetValue(results[1][2], keys)
    ELSE [kind |-> "list", vals |-> [n \in 1..Len(results) |-> results[n][2]],
          keys |-> keys]

\* callback(value): the call ends with the callback invoked on one value.
CallbackValue(v, keys) == [kind |-> "callback_value", vals |-> <<v>>, keys |-> keys]

\* callback(values): the call ends with the callback invoked on a list.
CallbackList(vals, keys) == [kind |-> "callback_list", vals |-> vals, keys |-> keys]

\* The end of _listen_for_result: `if callable(callback): return
\* callback(results, ...)` with results = list(results.values()), else the
\* results are returned.
ListenResult(callback, results, keys) ==
    IF callback
    THEN CallbackList([n \in 1..Len(results) |-> results[n][2]], keys)
    ELSE ListenReturn(results, keys)

\* The results that name a file: `type(value) is dict and
\* value.get('filename') is not None`
FileResults(results) ==
    SelectSeq(results, LAMBDA e : e[2].type = "dict" /\ e[2].filename)

\* _listen_for_result: one poll of the cache; when no key remains, return,
\* or request the file the first file result names.
ListenPoll(c) ==
    /\ pc[c] = "poll"
    /\ LET p == PollKeys(cache, cur[c].remaining, <<>>, <<>>)
           results == DictUpdate(cur[c].results, p.found)
       IN  /\ cache' = p.cache
           /\ uses' = UsedAll(uses, KeyList(p.found))
           /\ IF p.missing = <<>> /\ FileResults(results) # <<>>
              THEN /\ pc' = [pc EXCEPT ![c] = "download"]
                   /\ cur' = [cur EXCEPT ![c].remaining = <<>>,
                                         ![c].results = results]
                   /\ resolved' = ResolvedAfter(p.cache, <<>>, NoValue)
                   /\ UNCHANGED ret
              ELSE IF p.missing = <<>>
              THEN /\ pc' = [pc EXCEPT ![c] = "idle"]
                   /\ ret' = [ret EXCEPT ![c] = ListenResult(cur[c].callback, results, cur[c].keys)]
                   /\ cur' = [cur EXCEPT ![c] = NoCur]
                   /\ resolved' = IF Len(results) = 1
                                  THEN ResolvedAfter(p.cache, cur[c].keys, results[1][2])
                                  ELSE ResolvedAfter(p.cache, <<>>, NoValue)
              ELSE /\ pc' = [pc EXCEPT ![c] = "sleep"]
                   /\ cur' = [cur EXCEPT ![c].remaining = p.missing,
                                         ![c].results = results]
                   /\ resolved' = ResolvedAfter(p.cache, <<>>, NoValue)
                   /\ UNCHANGED ret
    /\ ev' = Ev("poll", c, cur[c].keys)
    /\ UNCHANGED <<kind, cache_size, default_block, connected, is_authenticated,
                   cred_sent, socket_thread, wire, i, sent, auth_failed>>
    /\ UNCHANGED aside

\* The key None.
NoneKey == <<"None">>

\* `next((pair[0] for pair in file_results if x in pair[0]), None)`
RowKey(x, file_results) ==
    IF \E n \in 1..Len(file_results) : IsSubstring(x, file_results[n][1])
    THEN file_results[CHOOSE n \in 1..Len(file_results) :
                         /\ IsSubstring(x, file_results[n][1])
                         /\ \A m \in 1..(n - 1) : ~IsSubstring(x, file_results[m][1])][1]
    ELSE NoneKey

\* dict(zip(file_df['security_id'].map(...), file_df.to_dict(orient='records')))
RECURSIVE FileCacheResults(_, _, _)
FileCacheResults(rows, file_results, acc) ==
    IF rows = <<>> THEN acc
    ELSE FileCacheResults(Tail(rows), file_results,
                          DictSet(acc, RowKey(Head(rows).security_id, file_results),
                                  Head(rows)))

\* `for key, value in file_cache_results.items(): self.cache[key] = value`
RECURSIVE PutEach(_, _, _)
PutEach(cch, size, entries) ==
    IF entries = <<>> THEN cch
    ELSE PutEach(LRUPut(cch, size, Head(entries)[1], Head(entries)[2]), size,
                 Tail(entries))

\* The contents the server may give the file that the call of caller c is
\* told to download: for a single call no row, or the row of the security
\* the call asked for; for an aggregated batch a row for every row of the
\* batch_input that was sent, in that order.
Files(c) ==
    LET file_results == FileResults(cur[c].results)
    IN  IF file_results = <<>> THEN {}
        ELSE IF cur[c].batch_input # <<>>
        THEN {[n \in 1..Len(cur[c].batch_input) |->
                  RowDict(cur[c].batch_input[n], file_results[1][2].v)]}
        ELSE {<<>>, <<RowDict(DictGet(cur[c].call.kwargs, S_security_id).s,
                              file_results[1][2].v)>>}

\* _listen_for_result, after the loop: the file has arrived as rows; its
\* rows replace the results and are put into the cache, and the call returns.
ListenDownload(c, rows) ==
    /\ pc[c] = "download"
    /\ LET file_results == FileResults(cur[c].results)
           file_cache_results == FileCacheResults(rows, file_results, <<>>)
           results == DictUpdate(cur[c].results, file_cache_results)
           stored == PutEach(cache, cache_size, file_cache_results)
       IN  /\ cache' = stored
           /\ uses' = UsedAll(uses, KeyList(file_cache_results))
           /\ ret' = [ret EXCEPT ![c] = ListenResult(cur[c].callback, results, cur[c].keys)]
           /\ resolved' = IF Len(results) = 1
                          THEN ResolvedAfter(stored, cur[c].keys, results[1][2])
                          ELSE ResolvedAfter(stored, <<>>, NoValue)
    /\ pc' = [pc EXCEPT ![c] = "idle"]
    /\ cur' = [cur EXCEPT ![c] = NoCur]
    /\ ev' = [op |-> "download", c |-> c, keys |-> cur[c].keys,
              data |-> IF rows = <<>> THEN NoValue ELSE rows[1]]
    /\ UNCHANGED <<kind, cache_size, default_block, connected, is_authenticated,
                   cred_sent, socket_thread, wire, i, sent, auth_failed>>
    /\ UNCHANGED aside

\* A frame the server sends.
Message(auth, err, data, keys) ==
    [is_authenticated |-> auth, error |-> err, data |-> data, cache_keys |-> keys]

\* on_message, `for key in cache_keys: if self.cache.get(key) is None:
\* self.cache[key] = data`
RECURSIVE StoreEach(_, _, _, _)
StoreEach(cch, size, keys, data) ==
    IF keys = <<>> THEN cch
    ELSE LET got == LRUGet(cch, Head(keys))
         IN  StoreEach(IF got[1] = NoValue
                       THEN LRUPut(got[2], size, Head(keys), data)
                       ELSE got[2],
                       size, Tail(keys), data)

\* on_message, for a frame that is no authentication acknowledgment: the
\* cache after it.  An error replaces the data; a list, or a dict without a
\* 'progress' entry, is stored under every cache key that has no value yet;
\* anything else is only printed.
MessageData(msg) == IF msg.error # NoValue THEN msg.error ELSE msg.data

Storable(data) == data.type = "list" \/ (data.type = "dict" /\ ~data.progress)

\* The data of an aggregated batch answer: a list of result rows.
RowList(items) == [type |-> "list", items |-> items]

\* `type(data) is list and type(data[0]) is dict`; data[0] of an empty list
\* raises, which ends the handler.
ListOfDicts(data) == data.type = "list" /\ data.items # <<>>

\* `next(item for item in data if item.get('security_id') in key)`: the
\* index of the first such item, 0 when there is none (StopIteration).
ItemFor(items, key) ==
    IF \E n \in 1..Len(items) : IsSubstring(items[n].security_id, key)
    THEN CHOOSE n \in 1..Len(items) :
            /\ IsSubstring(items[n].security_id, key)
            /\ \A m \in 1..(n - 1) : ~IsSubstring(items[m].security_id, key)
    ELSE 0

\* on_message, `for key in cache_keys: if self.cache.get(key) is None:
\* self.cache[key] = next(item ...)`: <<the cache after the loop, the keys
\* it used>>.  The loop ends at the first key that has no item, because the
\* exception leaves the handler.
RECURSIVE StoreItems(_, _, _, _, _)
StoreItems(cch, size, keys, items, used) ==
    IF keys = <<>> THEN <<cch, used>>
    ELSE LET got == LRUGet(cch, Head(keys))
         IN  IF got[1] # NoValue
             THEN StoreItems(got[2], size, Tail(keys), items, Append(used, Head(keys)))
             ELSE IF ItemFor(items, Head(keys)) = 0 THEN <<got[2], used>>
             ELSE StoreItems(LRUPut(got[2], size, Head(keys),
                                    items[ItemFor(items, Head(keys))]),
                             size, Tail(keys), items, Append(used, Head(keys)))

OnMessageCacheDrop(cch, size, msg) == cch

OnMessageCacheAny(cch, size, msg) ==
    StoreEach(cch, size, msg.cache_keys, MessageData(msg))

OnMessageCache(cch, size, msg) ==
    IF MessageData(msg).type = "list"
    THEN IF ListOfDicts(MessageData(msg))
         THEN StoreItems(cch, size, msg.cache_keys, MessageData(msg).items, <<>>)[1]
         ELSE cch
    ELSE IF Storable(MessageData(msg))
    THEN StoreEach(cch, size, msg.cache_keys, MessageData(msg))
    ELSE cch

\* history: the keys on_message used, in order.
OnMessageUsed(cch, size, msg) ==
    IF MessageData(msg).type = "list"
    THEN IF ListOfDicts(MessageData(msg))
         THEN StoreItems(cch, size, msg.cache_keys, MessageData(msg).items, <<>>)[2]
         ELSE <<>>
    ELSE IF Storable(MessageData(msg)) THEN msg.cache_keys
    ELSE <<>>

\* What the server answers a request frame with.
Replies ==
    {Message(FALSE, NoValue, DataDict(v), <<>>) : v \in Values}
    \cup {Message(FALSE, NoValue, FileDict(1), <<>>)}
    \cup {Message(FALSE, ErrorStr(1), NoValue, <<>>)}

\* The server answers an outstanding request frame and the receive
\* thread runs on_message on the answer.
ServerReply(frame, reply) ==
    /\ kind = "socket"
    /\ connected
    /\ BagIn(frame, wire)
    /\ LET msg == [reply EXCEPT !.cache_keys = frame.cache_keys]
           stored == OnMessageCache(cache, cache_size, msg)
       IN  /\ cache' = stored
           /\ uses' = UsedAll(uses, OnMessageUsed(cache, cache_size, msg))
           /\ resolved' = ResolvedAfter(stored, <<>>, NoValue)
           /\ ev' = [op |-> IF msg.error # NoValue THEN "error" ELSE "data",
                     c |-> 0, keys |-> msg.cache_keys, data |-> MessageData(msg)]
    /\ wire' = wire (-) SetToBag({frame})
    /\ UNCHANGED <<kind, cache_size, default_block, connected, is_authenticated,
                   cred_sent, socket_thread, pc, cur, ret, i, sent, auth_failed>>
    /\ UNCHANGED aside

\* The server reports the progress of an outstanding request, which stays
\* outstanding, and the receive thread runs on_message on the report.
ServerProgress(frame, v) ==
    /\ kind = "socket"
    /\ connected
    /\ BagIn(frame, wire)
    /\ LET msg == Message(FALSE, NoValue, ProgressDict(v), frame.cache_keys)
           stored == OnMessageCache(cache, cache_size, msg)
       IN  /\ cache' = stored
           /\ uses' = UsedAll(uses, OnMessageUsed(cache, cache_size, msg))
           /\ resolved' = ResolvedAfter(stored, <<>>, NoValue)
           /\ ev' = [op |-> "progress", c |-> 0, keys |-> msg.cache_keys,
                     data |-> MessageData(msg)]
    /\ UNCHANGED <<kind, cache_size, default_block, connected, is_authenticated,
                   cred_sent, socket_thread, wire, pc, cur, ret, i, sent, auth_failed>>
    /\ UNCHANGED aside

\* The connection is established: on_open runs authenticate(), which sends
\* the credential frame.
SocketOpen ==
    /\ kind = "socket"
    /\ socket_thread /\ ~connected
    /\ connected' = TRUE
    /\ cred_sent' = TRUE
    /\ ev' = Ev("open", 0, <<>>)
    /\ UNCHANGED <<kind, cache_size, default_block, cache, is_authenticated,
                   socket_thread, wire, pc, cur, ret, i, sent, resolved, uses,
                   auth_failed>>
    /\ UNCHANGED aside

\* on_message for the authentication acknowledgment frame.
AuthAck ==
    /\ kind = "socket"
    /\ connected /\ cred_sent /\ ~is_authenticated
    /\ is_authenticated' = TRUE
    /\ ev' = Ev("ack", 0, <<>>)
    /\ UNCHANGED <<kind, cache_size, default_block, cache, connected, cred_sent, socket_thread,
                   wire, pc, cur, ret, i, sent, resolved, uses, auth_failed>>
    /\ UNCHANGED aside

\* history: the callers that wait in _listen_for_result see an outage.
Outage ==
    [c \in Callers |-> IF pc[c] \in {"sleep", "poll", "download"}
                       THEN [cur[c] EXCEPT !.outage = TRUE] ELSE cur[c]]

\* on_error: the websocket thread reports an error.  When the socket is no
\* longer connected (lost), the handler runs _init_socket(), which opens a
\* new connection in a new thread; otherwise it only prints.
OnError(lost) ==
    /\ kind = "socket"
    /\ socket_thread
    /\ IF lost
       THEN InitSocket /\ cur' = Outage
       ELSE UNCHANGED <<connected, is_authenticated, cred_sent, socket_thread, cur>>
    /\ ev' = Ev("on_error", 0, <<>>)
    /\ UNCHANGED <<kind, cache_size, default_block, cache, wire, pc, ret, i,
                   sent, resolved, uses, auth_failed>>
    /\ UNCHANGED aside

\* The connection is closed without an error: on_close prints 'Socket
\* closed' and run_forever returns, which ends the thread.
SocketClose ==
    /\ kind = "socket"
    /\ socket_thread /\ connected
    /\ connected' = FALSE
    /\ socket_thread' = FALSE
    /\ cur' = Outage
    /\ ev' = Ev("on_close", 0, <<>>)
    /\ UNCHANGED <<kind, cache_size, default_block, cache, is_authenticated,
                   cred_sent, wire, pc, ret, i, sent, resolved, uses, auth_failed>>
    /\ UNCHANGED aside

\* ------------------------------------------------------------------------
\* Delivery modes and aggregated batches of the websocket client
\* ------------------------------------------------------------------------
\* The rows of a batch hold a security_id each.
Securities == {SecA, SecB}

\* A security id that holds another one, as an ISIN holds a CUSIP.
SecBA == SecB \o SecA

\* The largest number of rows of a batch_input.
MaxBatch == 2

\* The batch_input of the batch calls: up to MaxBatch rows, of which the last
\* asks for security A (a single row, two identical rows, two different rows).
BatchInputs ==
    {b \in UNION {[1..n -> Securities] : n \in 1..MaxBatch} : b[Len(b)] = SecA}

\* _parse_batch_input, {**base_cache_payload, **security_input}: the keywords
\* left in kwargs (input_file, output_file), the api_method, then the row.
BatchRowPayload(security_id) ==
    <<<<S_input_file, PyNone>>, <<S_output_file, PyNone>>,
      <<S_api_method, PyStr(S_coverage_check)>>,
      <<S_security_id, PyStr(security_id)>>>>

\* The same for any batch method and a row that holds further columns:
\* base_cache_payload = kwargs.copy() with 'api_method' set, then the row.
\* The payload of _dispatch (and its use_kalotay_analytics) is not part of it.
RowPayload(method, row) ==
    DictUpdate(<<<<S_input_file, PyNone>>, <<S_output_file, PyNone>>,
                 <<S_api_method, PyStr(method)>>>>, row)

\* The cache key of each row, computed once.
BatchKeyTable == [x \in Securities \cup {SecBA} |-> GetCacheKey(BatchRowPayload(x))]

\* cache_keys of a batch_input
BatchKeys(batch_input) == [n \in 1..Len(batch_input) |-> BatchKeyTable[batch_input[n]]]

\* batch_input_df['cache_keys'].map(self.cache), of which the non-null ones
\* are the cached_responses: the values are read without a cache.get().
CachedResponses(cch, batch_input) ==
    LET all == [n \in 1..Len(batch_input) |-> Peek(cch, BatchKeyTable[batch_input[n]])]
    IN  SelectSeq(all, LAMBDA v : v # NoValue)

OutstandingAll(cch, batch_input) == batch_input

\* The rows whose cached response is null.
OutstandingRequests(cch, batch_input) ==
    SelectSeq(batch_input, LAMBDA x : Peek(cch, BatchKeyTable[x]) = NoValue)

\* history: the name of the step a dispatch makes, by what is called and its
\* delivery mode (a callable callback is passed; block is true).
ModeName(what, callback, block) ==
    CASE callback /\ block -> what \o "_cb_block"
      [] callback /\ ~block -> what \o "_cb"
      [] ~callback /\ block -> what \o "_block"
      [] OTHER -> what \o "_nb"

\* The cache keys, as a non-blocking dispatch returns them.
Handle(keys) == [kind |-> "handle", vals |-> <<>>, keys |-> keys]

\* _dispatch from `self._socket.send(...)` on: the frame goes out; with
\* block the caller runs _listen_for_result itself, else the caller gets the
\* cache keys, and with a callable callback _listen_for_result is handed to
\* the thread w of self._executor.
SendAndDeliver(c, w, frame, listen, block) ==
    /\ SentTotal < MaxSends
    /\ wire' = wire (+) SetToBag({frame})
    /\ sent' = [k \in DOMAIN sent |->
                   IF \E n \in 1..Len(listen.sends) : listen.sends[n] = k
                   THEN sent[k] + 1 ELSE sent[k]]
    /\ IF block
       THEN /\ pc' = [pc EXCEPT ![c] = "sleep"]
            /\ cur' = [cur EXCEPT ![c] = listen.cur]
            /\ ret' = [ret EXCEPT ![c] = NoRet]
       ELSE IF listen.cur.callback
       THEN /\ pc[w] \in {"off", "idle"}
            /\ pc' = [pc EXCEPT ![w] = "sleep"]
            /\ cur' = [cur EXCEPT ![w] = listen.cur]
            /\ ret' = [ret EXCEPT ![c] = Handle(listen.cur.keys), ![w] = NoRet]
       ELSE /\ ret' = [ret EXCEPT ![c] = Handle(listen.cur.keys)]
            /\ UNCHANGED <<pc, cur>>

\* _dispatch of a single call, with or without a callable callback, on an
\* authenticated connection.
ModeDispatch(c, w, call, callback) ==
    /\ kind = "socket" /\ connected /\ is_authenticated
    /\ pc[c] = "idle" /\ w # c
    /\ LET keys == <<KeyOf("socket", call)>>
           got == LRUGet(cache, keys[1])
           listen == [cur |-> [NoCur EXCEPT !.call = call, !.callback = callback,
                                            !.keys = keys, !.remaining = keys],
                      sends |-> keys]
       IN  /\ cache' = got[2]
           /\ ev' = Ev(ModeName("call", callback, BlockOf(call)), c, keys)
           /\ IF got[1] # NoValue
              THEN /\ ret' = [ret EXCEPT ![c] =
                                IF callback THEN CallbackValue(got[1], keys)
                                ELSE RetValue(got[1], keys)]
                   /\ uses' = Used(uses, keys[1])
                   /\ resolved' = ResolvedAfter(got[2], keys, got[1])
                   /\ UNCHANGED <<pc, cur, wire, sent>>
              ELSE /\ SendAndDeliver(c, w, Frame(keys), listen, BlockOf(call))
                   /\ UNCHANGED <<uses, resolved>>
    /\ UNCHANGED <<kind, cache_size, default_block, connected, is_authenticated,
                   cred_sent, socket_thread, i, auth_failed>>
    /\ UNCHANGED aside

\* _dispatch_batch and the batch branch of _dispatch, with or without a
\* callable callback and without a block keyword: all rows cached gives the
\* cached responses; else one frame carries the cache keys of all rows and
\* the outstanding rows.
BatchDispatch(c, w, batch_input, callback) ==
    /\ kind = "socket" /\ connected /\ is_authenticated
    /\ pc[c] = "idle" /\ w # c
    /\ LET cache_keys == BatchKeys(batch_input)
           cached_responses == CachedResponses(cache, batch_input)
           outstanding_requests == OutstandingRequests(cache, batch_input)
           listen == [cur |-> [NoCur EXCEPT !.callback = callback,
                                            !.batch_input = outstanding_requests,
                                            !.keys = cache_keys,
                                            !.remaining = cache_keys],
                      sends |-> BatchKeys(outstanding_requests)]
       IN  /\ ev' = Ev(ModeName("batch", callback, default_block), c, cache_keys)
           /\ IF outstanding_requests = <<>>
              THEN /\ ret' = [ret EXCEPT ![c] =
                                IF callback THEN CallbackList(cached_responses, cache_keys)
                                ELSE [kind |-> "list", vals |-> cached_responses,
                                      keys |-> cache_keys]]
                   /\ UNCHANGED <<pc, cur, wire, sent>>
              ELSE SendAndDeliver(c, w, BatchFrame(cache_keys, outstanding_requests),
                                  listen, default_block)
    /\ UNCHANGED <<kind, cache_size, default_block, cache, connected,
                   is_authenticated, cred_sent, socket_thread, i, resolved, uses,
                   auth_failed>>
    /\ UNCHANGED aside

\* What the server answers a request frame with: a single call as before; an
\* aggregated batch with the list of the result rows of its batch_input, with
\* a file reference, or with an error.
RepliesTo(frame) ==
    IF frame.batch_input = <<>> THEN Replies
    ELSE {Message(FALSE, NoValue,
                  RowList([n \in 1..Len(frame.batch_input) |->
                              RowDict(frame.batch_input[n], v)]), <<>>) : v \in Values}
         \cup {Message(FALSE, NoValue, FileDict(1), <<>>)}
         \cup {Message(FALSE, ErrorStr(1), NoValue, <<>>)}

\* ------------------------------------------------------------------------
\* Specifications
\* ------------------------------------------------------------------------
HttpReplies == {DataDict(v) : v \in Values} \cup {JsonError(1)}

\* A client of any kind in use by the callers; the socket client has
\* completed its handshake.
Init ==
    \E knd \in Kinds, size \in 1..MaxCacheSize, blk \in BOOLEAN :
        InitWith(knd, size, IF knd = "socket" THEN blk ELSE TRUE, TRUE, Callers)

Next ==
    \/ \E c \in Callers, call \in Calls : HttpDispatch(c, call)
    \/ \E c \in Callers, data \in HttpReplies : HttpResponse(c, data)
    \/ \E c \in Callers, call \in Calls : SocketDispatch(c, call)
    \/ \E c \in Callers : ListenSleep(c)
    \/ \E c \in Callers : ListenPoll(c)
    \/ \E c \in Callers : \E rows \in Files(c) : ListenDownload(c, rows)
    \/ \E frame \in BagToSet(wire), reply \in Replies : ServerReply(frame, reply)
    \/ ClearCache

Spec == Init /\ [][Next]_vars

\* The socket client alone, blocking by default, with the fairness its threads
\* have: a caller that can take a step of its listen loop eventually takes
\* it.  Nothing obliges the server to answer.
SocketInit ==
    \E size \in 1..MaxCacheSize : InitWith("socket", size, TRUE, TRUE, Callers)

SocketNext ==
    \/ \E c \in Callers, call \in Calls : SocketDispatch(c, call)
    \/ \E c \in Callers : ListenSleep(c)
    \/ \E c \in Callers : ListenPoll(c)
    \/ \E c \in Callers : \E rows \in Files(c) : ListenDownload(c, rows)
    \/ \E frame \in BagToSet(wire), reply \in Replies : ServerReply(frame, reply)
    \/ ClearCache

\* The socket client with its callers scheduled fairly: a caller in
\* _listen_for_result keeps running its own loop (the sleep, the poll and the
\* file download); nothing obliges the server to answer.
FairSpec ==
    /\ SocketInit
    /\ [][SocketNext]_vars
    /\ \A c \in Callers :
        /\ WF_vars(ListenSleep(c))
        /\ WF_vars(ListenPoll(c))
        /\ WF_vars(\E rows \in Files(c) : ListenDownload(c, rows))

\* The socket client used by one caller while its connection is not up:
\* either just constructed, or after a call has resolved and the connection
\* has closed since (the cache keeps the entry, is_authenticated is stale
\* until _init_socket runs again).  The connection opens and authenticates
\* at any time; the caller's threads are scheduled fairly.
AuthCaller == CHOOSE c \in Callers : TRUE

AuthKey == KeyOf("socket", CHOOSE call \in Calls : call.kwargs = <<<<S_security_id, PyStr(SecA)>>>>)

AuthInit ==
    \/ \E size \in 1..MaxCacheSize : InitWith("socket", size, TRUE, FALSE, {AuthCaller})
    \/ /\ kind = "socket"
       /\ cache_size \in 1..MaxCacheSize
       /\ default_block = TRUE
       /\ cache = <<<<AuthKey, DataDict(1)>>>>
       /\ connected = FALSE
       /\ is_authenticated = TRUE
       /\ cred_sent = FALSE
       /\ socket_thread = FALSE
       /\ wire = EmptyBag
       /\ pc = [c \in Callers |-> IF c = AuthCaller THEN "idle" ELSE "off"]
       /\ cur = [c \in Callers |-> NoCur]
       /\ ret = [c \in Callers |-> IF c = AuthCaller
                                   THEN RetValue(DataDict(1), <<AuthKey>>) ELSE NoRet]
       /\ i = [c \in Callers |-> 0]
       /\ sent = [k \in KindKeys("socket") |-> IF k = AuthKey THEN 1 ELSE 0]
       /\ resolved = [k \in KindKeys("socket") |->
                         IF k = AuthKey THEN DataDict(1) ELSE NoValue]
       /\ uses = <<AuthKey>>
       /\ auth_failed = FALSE
       /\ ev = NoEv
       /\ NoAside

AuthNext ==
    \/ \E call \in Calls : SocketDispatch(AuthCaller, call)
    \/ AuthSleep(AuthCaller)
    \/ AuthExit(AuthCaller)
    \/ ListenSleep(AuthCaller)
    \/ ListenPoll(AuthCaller)
    \/ \E rows \in Files(AuthCaller) : ListenDownload(AuthCaller, rows)
    \/ \E frame \in BagToSet(wire), reply \in Replies : ServerReply(frame, reply)
    \/ SocketOpen
    \/ AuthAck

SpecAuth ==
    /\ AuthInit
    /\ [][AuthNext]_vars
    /\ WF_vars(AuthSleep(AuthCaller)) /\ WF_vars(AuthExit(AuthCaller))

\* The socket client whose connection fails, closes and comes back while
\* its caller calls (when the connection is up) and waits.  The threads of the
\* client are scheduled fairly and the server is reachable: a connection
\* attempt succeeds, and the acknowledgment comes unless the connection is
\* lost again and again.  Nothing obliges a caller to make a next call.
ConnInit ==
    \E size \in 1..MaxCacheSize : InitWith("socket", size, TRUE, TRUE, {AuthCaller})

ConnNext ==
    \/ \E c \in Callers, call \in Calls :
          connected /\ is_authenticated /\ SocketDispatch(c, call)
    \/ \E c \in Callers : ListenSleep(c)
    \/ \E c \in Callers : ListenPoll(c)
    \/ \E c \in Callers : \E rows \in Files(c) : ListenDownload(c, rows)
    \/ \E frame \in BagToSet(wire), reply \in Replies : ServerReply(frame, reply)
    \/ SocketOpen
    \/ AuthAck
    \/ \E lost \in BOOLEAN : OnError(lost)
    \/ SocketClose

SpecConn ==
    /\ ConnInit
    /\ [][ConnNext]_vars
    /\ WF_vars(SocketOpen)
    /\ SF_vars(AuthAck)
    /\ \A c \in Callers :
        /\ WF_vars(ListenSleep(c))
        /\ WF_vars(ListenPoll(c))
        /\ WF_vars(\E rows \in Files(c) : ListenDownload(c, rows))

\* The thread of self._executor that runs a submitted _listen_for_result.
Worker == CHOOSE w \in Callers : w # AuthCaller

\* The socket client, connected and authenticated, used by one caller for
\* single calls in every delivery mode.  The threads of the client are
\* scheduled fairly; nothing obliges the server to answer.
ModesInit ==
    \E size \in 1..MaxCacheSize, blk \in BOOLEAN :
        InitWith("socket", size, blk, TRUE, {AuthCaller})

ModesNext ==
    \/ \E call \in Calls, callback \in BOOLEAN :
          ModeDispatch(AuthCaller, Worker, call, callback)
    \/ \E c \in Callers : ListenSleep(c)
    \/ \E c \in Callers : ListenPoll(c)
    \/ \E c \in Callers : \E rows \in Files(c) : ListenDownload(c, rows)
    \/ \E frame \in BagToSet(wire), reply \in Replies : ServerReply(frame, reply)

SpecModes ==
    /\ ModesInit
    /\ [][ModesNext]_vars
    /\ \A c \in Callers :
        /\ WF_vars(ListenSleep(c))
        /\ WF_vars(ListenPoll(c))
        /\ WF_vars(\E rows \in Files(c) : ListenDownload(c, rows))

\* The same client and caller, making aggregated batch calls with and
\* without a callback.
AggNext ==
    \/ \E batch_input \in BatchInputs, callback \in BOOLEAN :
          BatchDispatch(AuthCaller, Worker, batch_input, callback)
    \/ \E c \in Callers : ListenSleep(c)
    \/ \E c \in Callers : ListenPoll(c)
    \/ \E c \in Callers : \E rows \in Files(c) : ListenDownload(c, rows)
    \/ \E frame \in BagToSet(wire) : \E reply \in RepliesTo(frame) :
          ServerReply(frame, reply)

SpecAgg == ModesInit /\ [][AggNext]_vars

\* The socket client used by one caller, with a server that reports the
\* progress of a request any number of times before it answers.
ProgressNext ==
    \/ \E call \in Calls : SocketDispatch(AuthCaller, call)
    \/ ListenSleep(AuthCaller)
    \/ ListenPoll(AuthCaller)
    \/ \E rows \in Files(AuthCaller) : ListenDownload(AuthCaller, rows)
    \/ \E frame \in BagToSet(wire), reply \in Replies : ServerReply(frame, reply)
    \/ \E frame \in BagToSet(wire), v \in Values : ServerProgress(frame, v)

SpecProgress == ConnInit /\ [][ProgressNext]_vars

\* The same, with batches whose rows are different securities, one of which
\* has an id that holds the id of another.
ItemInputs ==
    {b \in UNION {[1..n -> Securities \cup {SecBA}] : n \in 1..MaxBatch} :
        \A x, y \in 1..Len(b) : x # y => b[x] # b[y]}

ItemNext ==
    \/ \E batch_input \in ItemInputs, callback \in BOOLEAN :
          BatchDispatch(AuthCaller, Worker, batch_input, callback)
    \/ \E c \in Callers : ListenSleep(c)
    \/ \E c \in Callers : ListenPoll(c)
    \/ \E c \in Callers : \E rows \in Files(c) : ListenDownload(c, rows)
    \/ \E frame \in BagToSet(wire) : \E reply \in RepliesTo(frame) :
          ServerReply(frame, reply)

\* The calls of this client block (its default), so that one batch is
\* outstanding at a time.
ItemInit ==
    \E size \in 1..MaxCacheSize : InitWith("socket", size, TRUE, TRUE, {AuthCaller})

SpecItems == ItemInit /\ [][ItemNext]_vars

\* ------------------------------------------------------------------------
\* The cache key generators on their own
\* ------------------------------------------------------------------------
\* The longest parameter mapping drawn.
MaxParams == 3

ParamNames == {S_security_id, S_api_method, S_as_of_date, S_price, S_block}

\* The values a parameter of the given name takes: security_id and api_method
\* are strings (the generator concatenates them), the others anything.
ParamValues(name) ==
    IF name = S_security_id THEN {PyStr(SecA), PyStr(SecB)}
    ELSE IF name = S_api_method THEN {PyStr(S_coverage_check)}
    ELSE IF name = S_block THEN {PyBool(FALSE), PyNone}
    ELSE {PyStr(<<"7">>), PyNone}

ParamPairs == UNION {{<<name, value>> : value \in ParamValues(name)} : name \in ParamNames}

\* The mappings of n entries, in every insertion order.
Mappings(n) ==
    {d \in [1..n -> ParamPairs] : \A x, y \in 1..n : x # y => d[x][1] # d[y][1]}

\* The reorderings of mapping d.
Reorderings(d) ==
    LET n == Len(d)
        perms == {q \in [1..n -> 1..n] : \A x, y \in 1..n : x # y => q[x] # q[y]}
    IN  {[x \in 1..n |-> d[q[x]]] : q \in perms}

\* A second API credential.
ApiKey2 == <<"L">>

DispatchKinds == Kinds \cup {"api_sync"}

KeyInit ==
    /\ ClientInit("sync", 1, TRUE, TRUE, {})
    /\ \E n \in 0..MaxParams : P1 \in Mappings(n)
    /\ P2 \in Reorderings(P1)
    /\ fp = NoFp
    /\ batch = NoBatch
    /\ NoOthers

\* client.py _get_cache_key applied to both mappings.
Fingerprint ==
    /\ fp.op = "none"
    /\ fp' = [op |-> "client", a |-> GetCacheKey(P1), b |-> GetCacheKey(P2)]
    /\ UNCHANGED <<client, P1, P2, batch, others>>

\* finx_api.py _get_cache_key applied to both mappings.
FingerprintApi ==
    /\ fp.op = "none"
    /\ fp' = [op |-> "api", a |-> GetCacheKeyApi(P1), b |-> GetCacheKeyApi(P2)]
    /\ UNCHANGED <<client, P1, P2, batch, others>>

\* The key under which a dispatch of the given kind caches the call, for a
\* client constructed with the one and with the other credential.
DispatchFingerprint(knd, call) ==
    /\ fp.op = "none"
    /\ fp' = [op |-> knd, a |-> DispatchKey(knd, ApiKey, call),
              b |-> DispatchKey(knd, ApiKey2, call)]
    /\ UNCHANGED <<client, P1, P2, batch, others>>

KeyNext ==
    \/ Fingerprint
    \/ FingerprintApi
    \/ \E knd \in DispatchKinds, call \in Calls : DispatchFingerprint(knd, call)

SpecKey == KeyInit /\ [][KeyNext]_vars

\* The generators applied to two requests drawn independently.  A value is
\* None or a string, among them the string 'None' and a string holding a
\* comma and a colon; the names of a mapping come in one order.
S_7 == <<"7">>

S_7_price_7 == S_7 \o <<",">> \o S_price \o <<":">> \o S_7

Optional(name, values) == {<<>>} \cup {<<<<name, v>>>> : v \in values}

RequestMappings ==
    {s \o m \o d \o p :
        s \in Optional(S_security_id, {PyStr(SecA), PyStr(SecB)}),
        m \in Optional(S_api_method, {PyStr(S_coverage_check)}),
        d \in Optional(S_as_of_date, {PyNone, PyStr(S_None), PyStr(S_7), PyStr(S_7_price_7)}),
        p \in Optional(S_price, {PyNone, PyStr(S_7)})}

PairInit ==
    /\ ClientInit("sync", 1, TRUE, TRUE, {})
    /\ P1 \in RequestMappings
    /\ P2 \in RequestMappings
    /\ fp = NoFp
    /\ batch = NoBatch
    /\ NoOthers

PairNext == Fingerprint \/ FingerprintApi

SpecPairs == PairInit /\ [][PairNext]_vars

\* The socket client's two ways to the key of one request: as a single call
\* and as a row of a batch.  P1 holds the parameters next to security_id.
Methods == {S_coverage_check, S_security_analytics, S_security_reference}

RowParameters ==
    {d \o p :
        d \in Optional(S_as_of_date, {PyNone, PyStr(S_None), PyStr(S_7), PyStr(S_7_price_7)}),
        p \in Optional(S_price, {PyNone, PyStr(S_7)})}

RowInit ==
    /\ ClientInit("socket", 1, TRUE, TRUE, {})
    /\ P1 \in RowParameters
    /\ P2 = <<>>
    /\ fp = NoFp
    /\ batch = NoBatch
    /\ NoOthers

\* a: the key _dispatch computes for method(security_id, **P1); b: the key
\* _parse_batch_input computes for the row {security_id, **P1} of batch_method.
RowFingerprint(method, security_id) ==
    LET row == <<<<S_security_id, PyStr(security_id)>>>> \o P1
    IN  /\ fp.op = "none"
        /\ fp' = [op |-> "row", a |-> GetCacheKey(SocketPayload(Call(method, row))),
                  b |-> GetCacheKey(RowPayload(method, row))]
        /\ UNCHANGED <<client, P1, P2, batch, others>>

RowNext == \E method \in Methods, security_id \in Securities : RowFingerprint(method, security_id)

SpecRow == RowInit /\ [][RowNext]_vars

\* ------------------------------------------------------------------------
\* The batch entry points
\* ------------------------------------------------------------------------
\* `len(...) < 100`, `[:100]`
BatchLimit == 100

\* The largest number of rows handed to a batch call.
MaxRows == 102

BatchVariants ==
    {"client_sync", "client_async", "client_socket", "python_sync", "python_async",
     "api_sync", "api_async", "api_socket"}

Min(x, y) == IF x < y THEN x ELSE y

\* The batch call ends with an AssertionError, nothing sent.
BatchRaise == [batch EXCEPT !.done = TRUE, !.raised = TRUE]

\* The batch call goes on and sends `requests` requests carrying `rows` rows.
BatchSend(requests, rows) ==
    [batch EXCEPT !.done = TRUE, !.requests = requests, !.rows = rows]

BatchInit ==
    /\ ClientInit("sync", 1, TRUE, TRUE, {})
    /\ P1 = <<>> /\ P2 = <<>> /\ fp = NoFp /\ NoOthers
    /\ \E v \in BatchVariants, n \in 0..MaxRows :
          batch = [NoBatch EXCEPT !.variant = v, !.n = n]

\* client.py _SyncFinXClient._dispatch_batch: one _dispatch per row.
ClientSyncBatch ==
    /\ batch.variant = "client_sync" /\ ~batch.done
    /\ batch' = IF batch.n < BatchLimit THEN BatchSend(batch.n, batch.n) ELSE BatchRaise
    /\ UNCHANGED <<client, P1, P2, fp, others>>

\* client.py _AsyncFinXClient._dispatch_batch
ClientAsyncBatch ==
    /\ batch.variant = "client_async" /\ ~batch.done
    /\ batch' = IF batch.n < BatchLimit THEN BatchSend(batch.n, batch.n) ELSE BatchRaise
    /\ UNCHANGED <<client, P1, P2, fp, others>>

\* client.py _SocketFinXClient._dispatch_batch and the batch branch of
\* _dispatch, cache empty: `assert security_params or input_file`, then all
\* rows go out in one frame.
ClientSocketBatch ==
    /\ batch.variant = "client_socket" /\ ~batch.done
    /\ batch' = IF batch.n # 0 THEN BatchSend(1, batch.n) ELSE BatchRaise
    /\ UNCHANGED <<client, P1, P2, fp, others>>

\* src/python/finx_api/finx.py __SyncFinX.batch
PythonSyncBatch ==
    /\ batch.variant = "python_sync" /\ ~batch.done
    /\ batch' = IF batch.n < BatchLimit
                THEN BatchSend(Min(batch.n, BatchLimit), Min(batch.n, BatchLimit))
                ELSE BatchRaise
    /\ UNCHANGED <<client, P1, P2, fp, others>>

\* src/python/finx_api/finx.py __AsyncFinx.batch: no length in the assert,
\* security_ids[:100]
PythonAsyncBatch ==
    /\ batch.variant = "python_async" /\ ~batch.done
    /\ batch' = BatchSend(Min(batch.n, BatchLimit), Min(batch.n, BatchLimit))
    /\ UNCHANGED <<client, P1, P2, fp, others>>

\* finx_api.py __SyncFinX.batch
ApiSyncBatch ==
    /\ batch.variant = "api_sync" /\ ~batch.done
    /\ batch' = IF batch.n < BatchLimit THEN BatchSend(batch.n, batch.n) ELSE BatchRaise
    /\ UNCHANGED <<client, P1, P2, fp, others>>

\* finx_api.py __AsyncFinx.batch: no length in the assert
ApiAsyncBatch ==
    /\ batch.variant = "api_async" /\ ~batch.done
    /\ batch' = BatchSend(batch.n, batch.n)
    /\ UNCHANGED <<client, P1, P2, fp, others>>

\* finx_api.py __FinXSocket.batch
ApiSocketBatch ==
    /\ batch.variant = "api_socket" /\ ~batch.done
    /\ batch' = IF batch.n < BatchLimit THEN BatchSend(batch.n, batch.n) ELSE BatchRaise
    /\ UNCHANGED <<client, P1, P2, fp, others>>

BatchNext ==
    \/ ClientSyncBatch
    \/ ClientAsyncBatch
    \/ ClientSocketBatch
    \/ PythonSyncBatch
    \/ PythonAsyncBatch
    \/ ApiSyncBatch
    \/ ApiAsyncBatch
    \/ ApiSocketBatch

SpecBatch == BatchInit /\ [][BatchNext]_vars

\* ------------------------------------------------------------------------
\* The constructors
\* ------------------------------------------------------------------------
\* bool(v) of a Python value
Truthy(v) == (v.t = "str" /\ v.s # <<>>) \/ (v.t = "bool" /\ v.b)

\* a or b
PyOr(a, b) == IF Truthy(a) THEN a ELSE b

\* What finx_api_key=... and os.environ hold: nothing, '' or a key.
KeyInputs == {PyNone, PyStr(<<>>), PyStr(ApiKey)}

CtorVariants ==
    {"client_sync", "client_async", "client_socket", "api_sync", "api_async",
     "api_socket", "python_sync", "python_async", "finx"}

ConstructUnchecked(api_key, opens) ==
    [ctor EXCEPT !.done = TRUE, !.api_key = api_key, !.socket = opens]

\* `if self.__api_key is None: raise Exception('API key not found ...')`,
\* then the rest of the constructor, which opens the websocket and starts
\* its thread when opens is TRUE.
Construct(api_key, opens) ==
    IF api_key = PyNone
    THEN [ctor EXCEPT !.done = TRUE, !.raised = TRUE]
    ELSE [ctor EXCEPT !.done = TRUE, !.api_key = api_key, !.socket = opens]

CtorInit ==
    /\ ClientInit("sync", 1, TRUE, TRUE, {})
    /\ P1 = <<>> /\ P2 = <<>> /\ fp = NoFp /\ batch = NoBatch /\ net = NoNet
    /\ \E v \in CtorVariants, k \in KeyInputs, e \in KeyInputs :
          ctor = [NoCtor EXCEPT !.variant = v, !.finx_api_key = k, !.FINX_API_KEY = e]

\* kwargs.get('finx_api_key') or os.environ.get('FINX_API_KEY')
ClientKey == PyOr(ctor.finx_api_key, ctor.FINX_API_KEY)

\* kwargs.get('finx_api_key'), and os.environ.get('FINX_API_KEY') when that
\* is None (no yaml_path, no env_path)
ApiKeyOf == IF ctor.finx_api_key = PyNone THEN ctor.FINX_API_KEY ELSE ctor.finx_api_key

\* client.py _SyncFinXClient.__init__
ClientSyncInit ==
    /\ ctor.variant = "client_sync" /\ ~ctor.done
    /\ ctor' = Construct(ClientKey, FALSE)
    /\ UNCHANGED <<client, P1, P2, fp, batch, net>>

\* client.py _AsyncFinXClient.__init__: super().__init__(...) first
ClientAsyncInit ==
    /\ ctor.variant = "client_async" /\ ~ctor.done
    /\ ctor' = Construct(ClientKey, FALSE)
    /\ UNCHANGED <<client, P1, P2, fp, batch, net>>

\* client.py _SocketFinXClient.__init__: super().__init__(...) first, and
\* self._init_socket() last
ClientSocketInit ==
    /\ ctor.variant = "client_socket" /\ ~ctor.done
    /\ ctor' = Construct(ClientKey, TRUE)
    /\ UNCHANGED <<client, P1, P2, fp, batch, net>>

\* finx_api.py __SyncFinX.__init__
ApiSyncInit ==
    /\ ctor.variant = "api_sync" /\ ~ctor.done
    /\ ctor' = Construct(ApiKeyOf, FALSE)
    /\ UNCHANGED <<client, P1, P2, fp, batch, net>>

\* finx_api.py __AsyncFinx.__init__
ApiAsyncInit ==
    /\ ctor.variant = "api_async" /\ ~ctor.done
    /\ ctor' = Construct(ApiKeyOf, FALSE)
    /\ UNCHANGED <<client, P1, P2, fp, batch, net>>

\* finx_api.py __FinXSocket.__init__: the key check, then the WebSocketApp
\* and thread.start_new_thread(self.run_forever, ...)
ApiSocketInit ==
    /\ ctor.variant = "api_socket" /\ ~ctor.done
    /\ ctor' = Construct(ApiKeyOf, TRUE)
    /\ UNCHANGED <<client, P1, P2, fp, batch, net>>

\* src/python/finx_api/finx.py __SyncFinX.__init__
PythonSyncInit ==
    /\ ctor.variant = "python_sync" /\ ~ctor.done
    /\ ctor' = Construct(ApiKeyOf, FALSE)
    /\ UNCHANGED <<client, P1, P2, fp, batch, net>>

\* src/python/finx_api/finx.py __AsyncFinx.__init__
PythonAsyncInit ==
    /\ ctor.variant = "python_async" /\ ~ctor.done
    /\ ctor' = Construct(ApiKeyOf, FALSE)
    /\ UNCHANGED <<client, P1, P2, fp, batch, net>>

\* src/finx_api/finx.py FinX.__init__: os.getenv('FINX_API_KEY') only
FinxInit ==
    /\ ctor.variant = "finx" /\ ~ctor.done
    /\ ctor' = Construct(ctor.FINX_API_KEY, FALSE)
    /\ UNCHANGED <<client, P1, P2, fp, batch, net>>

CtorNext ==
    \/ ClientSyncInit
    \/ ClientAsyncInit
    \/ ClientSocketInit
    \/ ApiSyncInit
    \/ ApiAsyncInit
    \/ ApiSocketInit
    \/ PythonSyncInit
    \/ PythonAsyncInit
    \/ FinxInit

SpecCtor == CtorInit /\ [][CtorNext]_vars

\* ------------------------------------------------------------------------
\* The connections of the websocket client, step by step
\* ------------------------------------------------------------------------
\* Connections that _init_socket has replaced and whose thread still runs.
MaxReplaced == 1

\* self._socket, the connection the client sends on: whether it is
\* connected, whether its on_open has run, whether a credential frame went
\* out on it, whether it has received its acknowledgment.
Current ==
    [connected |-> connected, on_open |-> net.on_open, cred_sent |-> cred_sent,
     acked |-> net.acked]

RemoveAt(seq, n) == SubSeq(seq, 1, n - 1) \o SubSeq(seq, n + 1, Len(seq))

\* _init_socket() and _run_socket(): the flag is reset, self._socket and
\* self._socket_thread are rebound to a new connection and a new thread.
\* Nothing closes the connection they were bound to: when its thread runs
\* (alive), it goes on running.
NetInitSocket(replaced, alive) ==
    /\ is_authenticated' = FALSE
    /\ connected' = FALSE
    /\ cred_sent' = FALSE
    /\ socket_thread' = TRUE
    /\ net' = [on_open |-> FALSE, acked |-> FALSE,
               replaced |-> IF alive THEN Append(replaced, Current) ELSE replaced]

\* _dispatch, `if not self._socket.is_connected():` and, on a connected
\* socket, `if not self.is_authenticated:` and what follows.
NetDispatch(c, call) ==
    /\ kind = "socket"
    /\ pc[c] = "idle"
    /\ ev' = Ev("call", c, <<KeyOf("socket", call)>>)
    /\ IF ~connected
       THEN /\ pc' = [pc EXCEPT ![c] = "reconnect"]
            /\ cur' = [cur EXCEPT ![c] = [NoCur EXCEPT !.call = call]]
            /\ ret' = [ret EXCEPT ![c] = NoRet]
            /\ UNCHANGED <<cache, wire, sent, uses, resolved, i>>
       ELSE IF ~is_authenticated
       THEN /\ pc' = [pc EXCEPT ![c] = "auth_wait"]
            /\ cur' = [cur EXCEPT ![c] = [NoCur EXCEPT !.call = call]]
            /\ i' = [i EXCEPT ![c] = AuthPollBudget]
            /\ ret' = [ret EXCEPT ![c] = NoRet]
            /\ UNCHANGED <<cache, wire, sent, uses, resolved>>
       ELSE /\ DispatchBody(c, call)
            /\ UNCHANGED i
    /\ UNCHANGED <<kind, cache_size, default_block, auth_failed,
                   connected, is_authenticated, cred_sent, socket_thread>>
    /\ UNCHANGED aside

\* _dispatch, `self._init_socket()` after the socket was found not
\* connected, then the start of the authentication wait.
NetReconnect(c) ==
    /\ pc[c] = "reconnect"
    /\ Len(net.replaced) < MaxReplaced
    /\ NetInitSocket(net.replaced, socket_thread)
    /\ pc' = [pc EXCEPT ![c] = "auth_wait"]
    /\ i' = [i EXCEPT ![c] = AuthPollBudget]
    /\ ev' = Ev("reconnect", c, <<>>)
    /\ UNCHANGED <<kind, cache_size, default_block, cache, wire, cur, ret, sent,
                   resolved, uses, auth_failed>>
    /\ UNCHANGED <<P1, P2, fp, batch, ctor>>

\* run_forever of the current connection: the connection is established.
NetConnect ==
    /\ kind = "socket"
    /\ socket_thread /\ ~connected
    /\ connected' = TRUE
    /\ ev' = Ev("connect", 0, <<>>)
    /\ UNCHANGED <<kind, cache_size, default_block, cache, is_authenticated,
                   cred_sent, socket_thread, wire, pc, cur, ret, i, sent, resolved,
                   uses, auth_failed>>
    /\ UNCHANGED aside

\* on_open of the current connection: authenticate() sends the credential
\* frame on self._socket.
NetOnOpen ==
    /\ kind = "socket"
    /\ connected /\ ~net.on_open
    /\ cred_sent' = TRUE
    /\ net' = [net EXCEPT !.on_open = TRUE]
    /\ ev' = Ev("open", 0, <<>>)
    /\ UNCHANGED <<kind, cache_size, default_block, cache, connected,
                   is_authenticated, socket_thread, wire, pc, cur, ret, i, sent,
                   resolved, uses, auth_failed>>
    /\ UNCHANGED <<P1, P2, fp, batch, ctor>>

\* on_message of the current connection for its acknowledgment frame.
NetAck ==
    /\ kind = "socket"
    /\ connected /\ cred_sent /\ ~net.acked
    /\ is_authenticated' = TRUE
    /\ net' = [net EXCEPT !.acked = TRUE]
    /\ ev' = Ev("ack", 0, <<>>)
    /\ UNCHANGED <<kind, cache_size, default_block, cache, connected, cred_sent,
                   socket_thread, wire, pc, cur, ret, i, sent, resolved, uses,
                   auth_failed>>
    /\ UNCHANGED <<P1, P2, fp, batch, ctor>>

\* on_error of the current connection.  When the connection is gone (lost),
\* the handler runs _init_socket() from the thread that ends with it.
NetOnError(lost) ==
    /\ kind = "socket"
    /\ socket_thread
    /\ IF lost
       THEN NetInitSocket(net.replaced, FALSE) /\ cur' = Outage
       ELSE UNCHANGED <<connected, is_authenticated, cred_sent, socket_thread, cur, net>>
    /\ ev' = Ev("on_error", 0, <<>>)
    /\ UNCHANGED <<kind, cache_size, default_block, cache, wire, pc, ret, i,
                   sent, resolved, uses, auth_failed>>
    /\ UNCHANGED <<P1, P2, fp, batch, ctor>>

\* run_forever of a replaced connection: the connection is established.
ReplacedConnect(n) ==
    /\ n \in 1..Len(net.replaced)
    /\ ~net.replaced[n].connected
    /\ net' = [net EXCEPT !.replaced[n].connected = TRUE]
    /\ ev' = Ev("replaced_connect", 0, <<>>)
    /\ UNCHANGED <<kind, cache_size, default_block, cache, connected,
                   is_authenticated, cred_sent, socket_thread, wire, pc, cur, ret,
                   i, sent, resolved, uses, auth_failed>>
    /\ UNCHANGED <<P1, P2, fp, batch, ctor>>

\* on_open of a replaced connection: `lambda s: self.authenticate()` sends
\* the credential frame on self._socket, the current connection, and not on
\* s; when the current connection is not connected the send raises inside
\* the callback.
ReplacedOnOpen(n) ==
    /\ n \in 1..Len(net.replaced)
    /\ net.replaced[n].connected /\ ~net.replaced[n].on_open
    /\ net' = [net EXCEPT !.replaced[n].on_open = TRUE]
    /\ cred_sent' = (cred_sent \/ connected)
    /\ ev' = Ev("replaced_open", 0, <<>>)
    /\ UNCHANGED <<kind, cache_size, default_block, cache, connected,
                   is_authenticated, socket_thread, wire, pc, cur, ret, i, sent,
                   resolved, uses, auth_failed>>
    /\ UNCHANGED <<P1, P2, fp, batch, ctor>>

\* on_message of a replaced connection for its acknowledgment frame: the
\* handler sets the flag of the client, whichever connection received it.
ReplacedAck(n) ==
    /\ n \in 1..Len(net.replaced)
    /\ net.replaced[n].connected /\ net.replaced[n].cred_sent /\ ~net.replaced[n].acked
    /\ is_authenticated' = TRUE
    /\ net' = [net EXCEPT !.replaced[n].acked = TRUE]
    /\ ev' = Ev("replaced_ack", 0, <<>>)
    /\ UNCHANGED <<kind, cache_size, default_block, cache, connected, cred_sent,
                   socket_thread, wire, pc, cur, ret, i, sent, resolved, uses,
                   auth_failed>>
    /\ UNCHANGED <<P1, P2, fp, batch, ctor>>

\* on_error of a replaced connection that is gone (refused or lost): its
\* socket is not connected, and the handler runs _init_socket(), which
\* replaces the current connection.
ReplacedOnError(n) ==
    /\ n \in 1..Len(net.replaced)
    /\ NetInitSocket(RemoveAt(net.replaced, n), socket_thread)
    /\ cur' = Outage
    /\ ev' = Ev("replaced_error", 0, <<>>)
    /\ UNCHANGED <<kind, cache_size, default_block, cache, wire, pc, ret, i,
                   sent, resolved, uses, auth_failed>>
    /\ UNCHANGED <<P1, P2, fp, batch, ctor>>

\* The socket client from its construction on, used by one caller: the
\* first connection is still being established.  The server acknowledges
\* credential frames and leaves the requests unanswered.
NetInit == InitWith("socket", MaxCacheSize, TRUE, FALSE, {AuthCaller})

\* The calls of that caller return once their request is sent (block=False,
\* no callback), so that what they send is all that follows a handshake.
NetCalls == {call \in Calls : DictHas(call.kwargs, S_block)}

\* Request frames that caller sends at most.
MaxNetSends == 1

NetNext ==
    \/ \E call \in NetCalls : SentTotal < MaxNetSends /\ NetDispatch(AuthCaller, call)
    \/ NetReconnect(AuthCaller)
    \/ AuthSleep(AuthCaller)
    \/ AuthExit(AuthCaller)
    \/ NetConnect
    \/ NetOnOpen
    \/ NetAck
    \/ \E lost \in BOOLEAN : NetOnError(lost)
    \/ \E n \in 1..MaxReplaced : ReplacedConnect(n)
    \/ \E n \in 1..MaxReplaced : ReplacedOnOpen(n)
    \/ \E n \in 1..MaxReplaced : ReplacedAck(n)
    \/ \E n \in 1..MaxReplaced : ReplacedOnError(n)

SpecNet == NetInit /\ [][NetNext]_vars

\* ------------------------------------------------------------------------
\* Properties
\* ------------------------------------------------------------------------
\* Requests for key k that were sent and have no answer yet.
InFlight(k) ==
    IF kind = "socket" THEN CopiesIn(Frame(<<k>>), wire)
    ELSE Cardinality({c \in Callers : pc[c] = "posted" /\ cur[c].keys = <<k>>})

\* Some caller is waiting for key k in its listen loop.
Waited(k) ==
    \E c \in Callers : /\ pc[c] \in {"sleep", "poll"}
                       /\ \E n \in 1..Len(cur[c].remaining) : cur[c].remaining[n] = k

\* The step is the start of a call by c for the single cache key k.
CallStep(c, k) == pc[c] = "idle" /\ ev'.op = "call" /\ ev'.c = c /\ ev'.keys = <<k>>

\* The call that starts in this step ends in it, returning v, without a send.
ServedFromCache(c, k, v) ==
    /\ sent' = sent
    /\ wire' = wire
    /\ pc'[c] = "idle"
    /\ ret'[c] = RetValue(v, <<k>>)

\* C1: two calls with the same method and parameters that are both issued
\* before either has resolved cause exactly one request on the transport: no
\* cache key ever has two requests in flight.
C1_OneRequestInFlight == \A k \in DOMAIN sent : InFlight(k) <= 1

\* C2: once a call for a key has resolved successfully and the key has
\* stayed in the cache (neither evicted nor cleared), a call with the same
\* method and parameters sends nothing and returns the value that first
\* call returned.
C2_SecondCallFromCache ==
    [][\A c \in Callers, k \in DOMAIN resolved :
          (resolved[k] # NoValue /\ CallStep(c, k)) => ServedFromCache(c, k, resolved[k])]_vars

\* C3: a blocking socket call whose response never arrives ends after a
\* bounded wait (with ResultTimeout): every caller in the listen loop
\* eventually leaves it, unless a response for its keys arrives.
C3_BlockingCallEnds ==
    \A c \in Callers :
        (pc[c] \in {"sleep", "poll"}) ~>
            (pc[c] = "idle" \/ (ev.op \in {"data", "error"} /\ ev.keys = cur[c].keys))

C5_AuthenticationTimeout ==
    /\ [][LET c == AuthCaller
          IN  /\ (pc[c] = "idle" /\ pc'[c] = "auth_wait")
                    => (i'[c] = 5000 /\ ~is_authenticated'
                        /\ sent' = sent /\ wire' = wire /\ cache' = cache)
              /\ (pc[c] = "auth_wait" /\ pc'[c] = "auth_wait")
                    => (sent' = sent /\ wire' = wire /\ cache' = cache
                        /\ i'[c] \in {i[c], i[c] - 1})
              /\ (pc[c] = "auth_wait" /\ ret'[c].kind = "raise")
                    => (i[c] = 0 /\ ~is_authenticated /\ pc'[c] = "idle"
                        /\ sent' = sent /\ wire' = wire /\ cache' = cache)
              /\ (pc[c] = "auth_wait" /\ pc'[c] # "auth_wait" /\ is_authenticated)
                    => ret'[c].kind # "raise"
              /\ \A k \in DOMAIN sent :
                    (CallStep(c, k) /\ connected /\ is_authenticated)
                        => /\ pc'[c] # "auth_wait" /\ ret'[c].kind # "raise"
                           /\ IF Peek(cache, k) # NoValue
                              THEN ret'[c] = RetValue(Peek(cache, k), <<k>>)
                              ELSE sent'[k] = sent[k] + 1]_vars
    /\ (pc[AuthCaller] = "auth_wait") ~> (pc[AuthCaller] # "auth_wait")

\* C5 witness: a call failed with the authentication error, and a later call
\* for another key, made after the acknowledgment, sent its request and
\* returned the response; the entry cached before the failure is still there.
C5_Witness ==
    /\ auth_failed /\ is_authenticated /\ pc[AuthCaller] = "idle"
    /\ Peek(cache, AuthKey) = DataDict(1) /\ sent[AuthKey] = 1
    /\ \E k \in DOMAIN sent :
          /\ k # AuthKey /\ sent[k] = 1
          /\ ret[AuthCaller].kind = "value" /\ ret[AuthCaller].keys = <<k>>

\* C6: for parameter mappings P1 and P2 that hold the same name/value pairs
\* in a different order, each cache key generator returns the same key.
C6_KeyOrderIndependent ==
    fp.op \in {"client", "api"} => fp.a = fp.b

\* C6 witness: a generator was applied to a mapping of three entries and to
\* its reversal, two of the names being sorted by the generator.
C6_Witness ==
    /\ fp.op \in {"client", "api"} /\ Len(P1) = 3
    /\ P2 = <<P1[3], P1[2], P1[1]>>
    /\ P1[1][1] = S_price /\ P1[2][1] = S_as_of_date
    /\ fp.a = fp.b

\* C7: the key each dispatch caches under does not depend on the API
\* credential: the same call under two credentials gets the same key, and
\* the credential does not occur in the key.
C7_KeyWithoutCredential ==
    fp.op \in DispatchKinds =>
        (fp.a = fp.b /\ ~IsSubstring(ApiKey, fp.a) /\ ~IsSubstring(ApiKey2, fp.b))

\* C10: on every variant a batch call with 100 rows or more ends with an
\* error before anything is sent; no row is dropped silently.
C10_BatchLimitEnforced ==
    (batch.done /\ batch.n >= 100) =>
        (batch.raised /\ batch.requests = 0 /\ batch.rows = 0)

\* C8: the response cache never holds more entries than its capacity.
C8_CacheWithinCapacity == Len(cache) <= cache_size

\* C8 witness: the cache is full after a put, and a key that was cached
\* before is gone.
C8_Witness ==
    /\ Len(cache) = cache_size
    /\ ev.op \in {"data", "response"}
    /\ \E n \in 1..Len(uses) : uses[n] \notin CacheKeys(cache)

\* The cached key that was used least recently.
LeastRecent ==
    LET cached == SelectSeq(uses, LAMBDA k : k \in CacheKeys(cache))
    IN  cached[Len(cached)]

\* C9: a call that finds its key cached returns the value last put under it;
\* a cached value changes only by a put under its key; an entry leaves the
\* cache only by clear_cache or by the insertion of a new key into the full
\* cache, and that insertion removes exactly the least recently used key
\* (a put and a get that hits both count as a use).
C9_LruCache ==
    [][/\ \A c \in Callers, k \in DOMAIN sent :
             (Peek(cache, k) # NoValue /\ CallStep(c, k))
                 => (pc'[c] = "idle" /\ ret'[c] = RetValue(Peek(cache, k), <<k>>))
       /\ \A k \in CacheKeys(cache) \cap CacheKeys(cache') :
             Peek(cache', k) # Peek(cache, k)
                 => (ev'.op \in {"response", "download"} /\ ev'.keys = <<k>>
                     /\ Peek(cache', k) = ev'.data)
       /\ LET new == CacheKeys(cache') \ CacheKeys(cache)
              gone == CacheKeys(cache) \ CacheKeys(cache')
          IN  /\ gone # {} =>
                   \/ ev'.op = "clear" /\ cache' = <<>>
                   \/ Cardinality(new) >= 1 /\ Len(cache) = cache_size
              /\ (Cardinality(new) = 1 /\ Len(cache) = cache_size)
                   => gone = {LeastRecent}
              /\ (Cardinality(new) = 1 /\ Len(cache) < cache_size) => gone = {}
              /\ \A k \in new : Peek(cache', k) = ev'.data]_vars

\* C9 witness: a full cache of two entries lost a key to an insertion after
\* the older of the two remaining keys had been read again.
C9_Witness ==
    /\ cache_size = 2 /\ Len(cache) = 2 /\ Len(uses) = 3
    /\ ev.op \in {"data", "response"} /\ cache[1][1] = ev.keys[1]
    /\ uses[3] \notin CacheKeys(cache)
    /\ sent[cache[2][1]] = 1 /\ sent[uses[3]] = 1
    /\ \E c \in Callers : ret[c].kind = "value" /\ ret[c].keys = <<cache[2][1]>>

\* C12: when the server answers a request with an error payload, the error
\* payload is in the cache under every cache key of the request that had no
\* value yet, right after the answer has been handled (HTTP and socket).
C12_ErrorPayloadCached ==
    [][(ev'.op \in {"error", "http_error"}) =>
          \A n \in 1..Len(ev'.keys) :
              \/ ev'.keys[n] \in CacheKeys(cache)
              \/ Peek(cache', ev'.keys[n]) = ev'.data]_vars

\* C20: when the server answers an HTTP request with an error payload, the
\* sync and the async dispatch return the parsed payload that holds the
\* error as the value of the call.
C20_HttpErrorReturned ==
    (ev.op = "http_error") =>
        ret[ev.c] = [kind |-> "error", vals |-> <<ev.data>>, keys |-> ev.keys]

C17_AutomaticReconnect ==
    /\ [][(connected /\ ~connected') => (~is_authenticated' /\ socket_thread')]_vars
    /\ (~connected) ~> (connected /\ is_authenticated)

\* The connection goes down or comes up in this step.
ConnectionStep == connected' # connected \/ is_authenticated' # is_authenticated

\* Caller c is waiting in _listen_for_result.
Waiting(c) == pc[c] \in {"sleep", "poll"}

\* C18: a caller that waits for its keys when the connection is lost keeps
\* waiting while the connection goes down and comes up, nothing is raised to
\* it, and once a data response for its keys arrives after the loss the
\* call returns.
C18_WaiterSurvivesReconnect ==
    /\ [][\A c \in Callers :
            (Waiting(c) /\ ConnectionStep) =>
                (pc'[c] = pc[c] /\ ret'[c] = ret[c] /\ cur'[c].remaining = cur[c].remaining)]_vars
    /\ \A c \in Callers :
          (Waiting(c) /\ cur[c].outage /\ ev.op = "data" /\ ev.keys = cur[c].keys)
              ~> (pc[c] = "idle")

\* The step in which the blocking batch call of caller c returns: from
\* _dispatch when every row is cached, else from _listen_for_result.
BatchReturn(c) ==
    \/ ev'.op = "batch_block" /\ ev'.c = c /\ pc'[c] = "idle"
    \/ /\ pc[c] \in {"poll", "download"} /\ pc'[c] = "idle"
       /\ cur[c].batch_input # <<>> /\ ~cur[c].callback

\* The cache keys of the rows of the batch call of c that makes a step.
BatchRowKeys(c) == IF pc[c] = "idle" THEN ev'.keys ELSE cur[c].keys

\* C11: a blocking batch call returns a sequence with exactly one response
\* per input row, in input order: element n is the response of row n, the
\* one the cache holds under the key of row n, also when rows were cached
\* before, when two rows are identical and when there is a single row.
C11_BatchRowsInOrder ==
    [][\A c \in Callers :
          BatchReturn(c) =>
             /\ ret'[c].kind = "list"
             /\ Len(ret'[c].vals) = Len(BatchRowKeys(c))
             /\ \A n \in 1..Len(BatchRowKeys(c)) :
                    ret'[c].vals[n] = Peek(cache', BatchRowKeys(c)[n])]_vars

\* C16: when _listen_for_result of an aggregated batch has downloaded the
\* file the server answered with, the cache holds under the key of every
\* outstanding row the row of the file with that row's security_id, and no
\* file reference.
C16_DownloadedRowsCached ==
    [][\A c \in Callers :
          (pc[c] = "download" /\ pc'[c] = "idle" /\ cur[c].batch_input # <<>>) =>
             \A n \in 1..Len(cur[c].batch_input) :
                Peek(cache', BatchKeyTable[cur[c].batch_input[n]])
                   = RowDict(cur[c].batch_input[n], ev'.data.v)]_vars

\* The values the server answers a single call with: data, or an error.
Answers == {DataDict(v) : v \in Values} \cup {ErrorStr(1)}

\* The callback of the call of c has been invoked on the value, alone or as
\* the only element of the results.
CallbackInvoked(c, data) ==
    /\ pc[c] = "idle"
    /\ ret[c].kind \in {"callback_value", "callback_list"}
    /\ ret[c].vals = <<data>>

\* C13: once the server has answered, with data or with an error, the
\* request of a call that was made with a callback and waits for its
\* result, the callback is eventually invoked with the answered value.
C13_CallbackInvoked ==
    \A c \in Callers : \A data \in Answers :
        (/\ pc[c] \in {"sleep", "poll"} /\ cur[c].callback
         /\ ev.op \in {"data", "error"} /\ ev.keys = cur[c].keys /\ ev.data = data)
            ~> CallbackInvoked(c, data)

\* C14: a call made with a callback, or with block false, returns to its
\* caller without waiting, whatever self.block is; on a cache miss of a
\* call with a callback it is the executor's thread that waits and invokes.
C14_CallerNotBlocked ==
    [][(ev'.op \in {"call_cb", "call_cb_block", "call_nb"}) =>
          /\ pc'[ev'.c] = "idle"
          /\ (ev'.op # "call_nb" /\ ev'.keys[1] \notin CacheKeys(cache)) =>
                (/\ pc'[Worker] = "sleep" /\ cur'[Worker].callback
                 /\ cur'[Worker].keys = ev'.keys)]_vars

\* C15: a call with block false and no callback returns its cache keys as
\* the handle, whether the key is in the cache or not, and when the response
\* arrives the cache holds it under the handle.
C15_HandleReturned ==
    /\ [][(ev'.op = "call_nb") => ret'[ev'.c] = Handle(ev'.keys)]_vars
    /\ [][(ev'.op = "data" /\ ev'.data.type = "dict" /\ ~ev'.data.progress) =>
             \A n \in 1..Len(ev'.keys) :
                 \/ ev'.keys[n] \in CacheKeys(cache)
                 \/ Peek(cache', ev'.keys[n]) = ev'.data]_vars

\* C21: a socket call whose key is in the cache returns the cached value in
\* the step of the call, also when the client is not connected or not
\* authenticated: nothing is sent, no reconnect is started, and the call
\* neither waits for the authentication nor raises.
C21_CachedCallImmediate ==
    [][(kind = "socket" /\ ev'.op = "call" /\ ev'.keys[1] \in CacheKeys(cache)) =>
          /\ pc'[ev'.c] = "idle"
          /\ ret'[ev'.c] = RetValue(Peek(cache, ev'.keys[1]), ev'.keys)
          /\ wire' = wire
          /\ <<connected, is_authenticated, cred_sent, socket_thread>>'
                = <<connected, is_authenticated, cred_sent, socket_thread>>]_vars

\* C24: a frame other than the authentication acknowledgment that
\* on_message receives while the client is not authenticated changes neither
\* the cache nor the state of the connection.
C24_FrameBeforeAuthentication ==
    [][(ev'.op \in {"data", "error"} /\ ~is_authenticated) =>
          /\ cache' = cache
          /\ <<connected, is_authenticated, cred_sent, socket_thread>>'
                = <<connected, is_authenticated, cred_sent, socket_thread>>]_vars

\* C27: while a key stays in the cache its value is not written again: a
\* later response for the key, a duplicate call and the file download never
\* replace a value the cache holds under the key.
C27_WrittenOnce ==
    [][\A k \in CacheKeys(cache) \cap CacheKeys(cache') :
          Peek(cache', k) = Peek(cache, k)]_vars

BatchOps == {"batch_block", "batch_cb_block", "batch_cb", "batch_nb"}

\* The keys, in row order, that the cache does not hold.
AbsentKeys(cch, keys) == SelectSeq(keys, LAMBDA k : k \notin CacheKeys(cch))

\* C28: the frame of a socket batch call carries exactly the rows whose keys
\* were absent from the cache when the batch was parsed; when every row is
\* cached no frame is sent and the cached responses are returned, or passed
\* to the callback, in row order.
C28_OutstandingRowsSent ==
    [][(ev'.op \in BatchOps) =>
          IF AbsentKeys(cache, ev'.keys) = <<>>
          THEN /\ wire' = wire
               /\ pc'[ev'.c] = "idle"
               /\ ret'[ev'.c].kind = IF ev'.op \in {"batch_cb", "batch_cb_block"}
                                     THEN "callback_list" ELSE "list"
               /\ ret'[ev'.c].vals = [n \in 1..Len(ev'.keys) |-> Peek(cache, ev'.keys[n])]
          ELSE \E frame \in BagToSet(wire') :
                  /\ wire' = wire (+) SetToBag({frame})
                  /\ frame.cache_keys = ev'.keys
                  /\ BatchKeys(frame.batch_input) = AbsentKeys(cache, ev'.keys)]_vars

\* A batch of two different rows, one of them cached, has been sent.
C28_Witness ==
    /\ ev.op \in BatchOps
    /\ \E frame \in BagToSet(wire) :
          /\ frame.cache_keys = ev.keys
          /\ Len(frame.cache_keys) = 2 /\ Len(frame.batch_input) = 1
          /\ frame.cache_keys[1] # frame.cache_keys[2]

\* C29: clear_cache removes every entry and leaves the connection, the
\* requests under way and the callers as they are; a call made right after
\* it goes to the transport; a caller that waits for a key returns only a
\* value that the cache holds under this key.
C29_ClearCache ==
    /\ [][(ev'.op = "clear") =>
             /\ cache' = <<>>
             /\ <<connected, is_authenticated, cred_sent, socket_thread, wire, pc, cur>>'
                   = <<connected, is_authenticated, cred_sent, socket_thread, wire, pc, cur>>]_vars
    /\ [][(ev.op = "clear" /\ ev'.op = "call") => SentTotal' = SentTotal + 1]_vars
    /\ [][\A c \in Callers :
             (pc[c] = "poll" /\ pc'[c] = "idle" /\ ret'[c].kind = "value") =>
                ret'[c].vals[1] = Peek(cache, cur[c].keys[1])]_vars

\* clear_cache has emptied a cache that held a response, while a call waits
\* for its own.
C29_Witness ==
    /\ ev.op = "clear" /\ cache = <<>> /\ uses # <<>>
    /\ \E c \in Callers : pc[c] \in {"sleep", "poll", "posted"}

\* C26: when the response of a request is in the cache before its caller
\* makes the first lookup of _listen_for_result, the caller still obtains
\* it: the blocking call returns it, the executor's thread invokes the
\* callback on it.
C26_EarlyResponseObtained ==
    \A c \in Callers : \A data \in Answers :
        (/\ pc[c] = "sleep" /\ cur[c].results = <<>> /\ Len(cur[c].keys) = 1
         /\ Peek(cache, cur[c].keys[1]) = data)
            ~> (/\ pc[c] = "idle"
                /\ ret[c].kind \in {"value", "callback_list"}
                /\ ret[c].vals = <<data>>)

\* Connections of the client that are open: the current one and the
\* replaced ones.
LiveConnections ==
    (IF connected THEN 1 ELSE 0)
        + Cardinality({n \in 1..Len(net.replaced) : net.replaced[n].connected})

\* C25: at every moment a socket client has at most one connection open,
\* whoever started a reconnect (the error handler, a call) and also when a
\* call is made while the first connection is still being established.
C25_OneLiveConnection == kind = "socket" => LiveConnections <= 1

\* C23: is_authenticated is true only if the connection the client sends on
\* is connected and has itself received its acknowledgment; an
\* acknowledgment received on a replaced connection does not leave it true.
C23_FlagOfCurrentConnection == is_authenticated => (connected /\ net.acked)

\* C30: every request frame is sent on a connection that is connected and
\* has received its own acknowledgment, also when the call has replaced the
\* connection and the replaced connection is acknowledged meanwhile.
C30_SentOnAcknowledged ==
    [][(SentTotal' > SentTotal) => (connected /\ net.acked)]_vars

\* C22: no request frame is sent on a connection before the credential
\* frame of that connection: the credential frame is the first frame out.
C22_CredentialFrameFirst ==
    [][(SentTotal' > SentTotal) => (connected /\ cred_sent)]_vars

\* C31: a waiter whose response has been delivered (every fingerprint it
\* still waits for is in the cache) eventually returns, also when other
\* responses are written between two of its polls: no response is evicted
\* before its waiter has read it.
C31_DeliveredWaiterReturns ==
    \A c \in Callers :
        (/\ pc[c] \in {"sleep", "poll"}
         /\ cur[c].remaining # <<>>
         /\ \A n \in 1..Len(cur[c].remaining) : cur[c].remaining[n] \in CacheKeys(cache))
            ~> (pc[c] = "idle")

\* The parameters of a call: its keywords but the delivery mode.
RequestParams(call) == SelectSeq(call.kwargs, LAMBDA e : e[1] # S_block)

\* Two calls with the same method and parameters.
SameRequest(call1, call2) ==
    call1.method = call2.method /\ RequestParams(call1) = RequestParams(call2)

SingleOps == {"call_block", "call_cb_block", "call_cb", "call_nb"}

\* C32: the fingerprint of a socket call does not depend on its delivery
\* mode: a call whose request (method and parameters, the block keyword
\* apart) has an entry in the cache is served from that entry and sends
\* nothing.
C32_ModeIndependentFingerprint ==
    [][\A call1 \in Calls, call2 \in Calls :
          (/\ ev'.op \in SingleOps
           /\ ev'.keys = <<KeyOf("socket", call1)>>
           /\ SameRequest(call1, call2)
           /\ KeyOf("socket", call2) \in CacheKeys(cache))
              => (KeyOf("socket", call1) = KeyOf("socket", call2) /\ wire' = wire)]_vars

\* C33: two requests that differ in method or in at least one parameter name
\* or value never get the same fingerprint, from either generator.
C33_DistinctRequestsDistinctKeys ==
    (fp.op \in {"client", "api"} /\ DictKeys(P1) \cup DictKeys(P2) # {}
        /\ {P1[n] : n \in 1..Len(P1)} # {P2[n] : n \in 1..Len(P2)})
            => fp.a # fp.b

\* C34: for every method, the key a socket batch call computes for a row
\* equals the key a single socket call computes for the same method and
\* parameters.
C34_RowKeyIsCallKey == fp.op = "row" => fp.a = fp.b

\* The security of the row a batch key belongs to.
SecurityOf(k) == CHOOSE x \in Securities \cup {SecBA} : BatchKeyTable[x] = k

\* C35: when an aggregated batch answer (a list of items, with the list of
\* fingerprints) is received, a fingerprint that was not cached is written
\* with the item of its own row's security, never with another row's item,
\* and a fingerprint with no item does not keep the rest of the frame from
\* being written (seen at the last fingerprint, which no later write of the
\* frame can evict).
C35_ItemOfOwnRow ==
    [][(ev'.op = "data" /\ ev'.data.type = "list") =>
          LET keys == ev'.keys
              items == ev'.data.items
              last == keys[Len(keys)]
          IN  /\ \A n \in 1..Len(keys) :
                    (keys[n] \notin CacheKeys(cache) /\ keys[n] \in CacheKeys(cache'))
                        => Peek(cache', keys[n]).security_id = SecurityOf(keys[n])
              /\ (/\ last \notin CacheKeys(cache)
                  /\ \E m \in 1..Len(items) : items[m].security_id = SecurityOf(last))
                    => last \in CacheKeys(cache')]_vars

\* C36: no call returns (or passes to its callback) a file reference, a
\* payload carrying a filename, as the value of a fingerprint: neither a
\* call that hits the cache between the arrival of the file reference and
\* its download, nor a later call after a non-blocking call whose file
\* reference nobody redeemed.
C36_NoFileReferenceReturned ==
    \A c \in Callers :
        ret[c].kind \in {"value", "list", "callback_value", "callback_list"}
            => \A n \in 1..Len(ret[c].vals) :
                  ~(ret[c].vals[n].type = "dict" /\ ret[c].vals[n].filename)

\* C37: a progress report (a mapping with a progress field) never writes to
\* the cache and never releases a waiter: after it the cache, the waiters
\* and the outstanding requests are as before, and a waiter only returns
\* what has been written for its fingerprints.
C37_ProgressIgnored ==
    /\ [][(ev'.op = "progress") =>
            /\ cache' = cache
            /\ <<pc, cur, ret, wire, resolved>>' = <<pc, cur, ret, wire, resolved>>]_vars
    /\ [][\A c \in Callers :
            (pc[c] = "poll" /\ pc'[c] \in {"idle", "download"})
                => \A n \in 1..Len(cur[c].remaining) :
                       /\ cur[c].remaining[n] \in CacheKeys(cache)
                       /\ ~Peek(cache, cur[c].remaining[n]).progress]_vars

\* A progress report has come for the fingerprint a waiter waits for.
C37_Witness ==
    /\ ev.op = "progress"
    /\ \E c \in Callers :
          /\ pc[c] \in {"sleep", "poll"}
          /\ cur[c].keys = ev.keys
          /\ cur[c].remaining = ev.keys

====
